---- MODULE Spec2Model ----
(***************************************************************************)
(* Model of the better-budget-tracker data layer: the SQLite store behind  *)
(* BudgetManager (income, expenses, aliases, budget_limits) and            *)
(* GoalTracker (savings_goals), which share one database file.             *)
(*                                                                         *)
(* Text values are sequences of code points, so that stripping, ordering   *)
(* and formatting are computed as the code computes them.  SQL NULL /      *)
(* Python None is the one-element sequence <<-1>>, which no text equals.   *)
(* REAL amounts are modelled by integers.                                  *)
(***************************************************************************)
EXTENDS Integers, Sequences, FiniteSets, TLC

VARIABLES
    tables,   \* table name -> set of rows (the tables of the database file)
    seq,      \* sqlite_sequence: table name -> largest id ever assigned
    clock,    \* CURRENT_TIMESTAMP, in whole seconds
    last      \* the last call: its name, arguments, error and return value

vars == <<tables, seq, clock, last>>

---------------------------------------------------------------------------
(* Bounds of the model *)

MaxId == 3        \* ids handed out in the whole database before adds stop
MaxRows == 2      \* rows in the whole database before adds stop
MaxClock == 1     \* seconds the clock may advance
MaxLimitId == 3   \* ids the budget_limits table hands out before sets stop
AmountLen == 3    \* characters in a typed amount

---------------------------------------------------------------------------
(* Text *)

None == <<-1>>
Empty == << >>

\* code points: the digit d, the hyphen, the space
Digit(d) == 48 + d
Hyphen == <<45>>
Blank == <<32>>

Max(S) == CHOOSE x \in S : \A y \in S : y <= x

IsSpace(c) == c \in {9, 10, 11, 12, 13, 32}

RECURSIVE LStrip(_)
LStrip(s) == IF s # << >> /\ IsSpace(Head(s)) THEN LStrip(Tail(s)) ELSE s

RECURSIVE RStrip(_)
RStrip(s) ==
    IF s # << >> /\ IsSpace(s[Len(s)]) THEN RStrip(SubSeq(s, 1, Len(s) - 1)) ELSE s

\* str.strip()
Strip(s) == RStrip(LStrip(s))

\* f"{n}" for n >= 0
RECURSIVE Fmt(_)
Fmt(n) == IF n < 10 THEN <<Digit(n)>> ELSE Fmt(n \div 10) \o <<Digit(n % 10)>>

\* f"{n:02d}" for n >= 0
Fmt02(n) == IF n < 10 THEN <<Digit(0), Digit(n)>> ELSE Fmt(n)

\* the text "y-mm-dd" as the code formats it
DateStr(y, m, d) == Fmt(y) \o Hyphen \o Fmt02(m) \o Hyphen \o Fmt02(d)

\* SQLite's BINARY collation on TEXT: bytewise, a proper prefix sorts first
RECURSIVE StrLE(_, _)
StrLE(a, b) ==
    IF a = << >> THEN TRUE
    ELSE IF b = << >> THEN FALSE
    ELSE IF Head(a) < Head(b) THEN TRUE
    ELSE IF Head(a) > Head(b) THEN FALSE
    ELSE StrLE(Tail(a), Tail(b))

IsDigit(c) == c \in Digit(0) .. Digit(9)

\* int() of a run of decimal digits
RECURSIVE ToInt(_)
ToInt(s) == IF s = << >> THEN 0 ELSE 10 * ToInt(SubSeq(s, 1, Len(s) - 1)) + (s[Len(s)] - Digit(0))

IsLeap(y) == (y % 4 = 0 /\ y % 100 # 0) \/ y % 400 = 0

DaysInMonth(y, m) ==
    IF m = 2 THEN (IF IsLeap(y) THEN 29 ELSE 28)
    ELSE IF m \in {4, 6, 9, 11} THEN 30 ELSE 31

\* a validate_date that stops after the pattern
validate_date_pattern(s) ==
    /\ s # << >>
    /\ Len(s) = 10
    /\ \A i \in {1, 2, 3, 4, 6, 7, 9, 10} : IsDigit(s[i])
    /\ <<s[5]>> = Hyphen /\ <<s[8]>> = Hyphen

\* utils.validate_date: the pattern ^\d{4}-\d{2}-\d{2}$ and then strptime
validate_date(s) ==
    /\ s # << >>
    /\ Len(s) = 10
    /\ \A i \in {1, 2, 3, 4, 6, 7, 9, 10} : IsDigit(s[i])
    /\ <<s[5]>> = Hyphen /\ <<s[8]>> = Hyphen
    /\ LET y == ToInt(SubSeq(s, 1, 4))
           m == ToInt(SubSeq(s, 6, 7))
           d == ToInt(SubSeq(s, 9, 10))
       IN  y >= 1 /\ m \in 1 .. 12 /\ d \in 1 .. DaysInMonth(y, m)

---------------------------------------------------------------------------
(* The database: tables with INTEGER PRIMARY KEY AUTOINCREMENT *)

TableNames == {"income", "aliases", "expenses", "budget_limits", "savings_goals"}

NoSeq == [n \in {} |-> 0]

DB == [tables |-> tables, seq |-> seq]

Ids(db, t) == {r.id : r \in db.tables[t]}

RowCount(db) ==
    LET RECURSIVE Sum(_)
        Sum(S) == IF S = {} THEN 0
                  ELSE LET t == CHOOSE x \in S : TRUE
                       IN  Cardinality(db.tables[t]) + Sum(S \ {t})
    IN  Sum(DOMAIN db.tables)

\* the rowid of a table without AUTOINCREMENT: one more than the largest id
\* the table holds
NextRowid_max(db, t) == Max(Ids(db, t) \cup {0}) + 1

\* the rowid AUTOINCREMENT gives the next row of table t: one more than the
\* largest id the table holds or, by sqlite_sequence, has ever held
NextRowid(db, t) ==
    Max(Ids(db, t) \cup {IF t \in DOMAIN db.seq THEN db.seq[t] ELSE 0}) + 1

\* INSERT INTO t (columns other than id) VALUES (...)
Insert(db, t, cols) ==
    LET id == NextRowid(db, t)
        row == [f \in DOMAIN cols \cup {"id"} |-> IF f = "id" THEN id ELSE cols[f]]
    IN  [tables |-> [db.tables EXCEPT ![t] = @ \cup {row}],
         seq |-> [n \in DOMAIN db.seq \cup {t} |-> IF n = t THEN id ELSE db.seq[n]]]

\* a DELETE whose WHERE clause reads id <= ?
DeleteById_upto(db, t, id) ==
    [db EXCEPT !.tables[t] = {r \in @ : r.id > id}]

\* DELETE FROM t WHERE id = ?
DeleteById(db, t, id) ==
    [db EXCEPT !.tables[t] = {r \in @ : r.id # id}]

\* the ids handed out so far, over all tables
Assigned(db) ==
    LET RECURSIVE Sum(_)
        Sum(S) == IF S = {} THEN 0
                  ELSE LET t == CHOOSE x \in S : TRUE
                       IN  (NextRowid(db, t) - 1) + Sum(S \ {t})
    IN  Sum(DOMAIN db.tables)

Room == RowCount(DB) < MaxRows /\ Assigned(DB) < MaxId

Commit(db) == tables' = db.tables /\ seq' = db.seq

Init ==
    /\ tables = [t \in TableNames |-> {}]
    /\ seq = NoSeq
    /\ clock = 0
    /\ last = [op |-> "init"]

\* a second passes
Tick ==
    /\ clock < MaxClock
    /\ clock' = clock + 1
    /\ last' = [op |-> "tick"]
    /\ UNCHANGED <<tables, seq>>

---------------------------------------------------------------------------
(* BudgetManager: income and expense entries *)

\* a constructor that does not look at the amount
IncomeEntry_post_init_anyamount(e) == Strip(e.source) # << >>

\* IncomeEntry.__post_init__: TRUE when the constructor accepts the fields
IncomeEntry_post_init(e) == ~(e.amount < 0) /\ Strip(e.source) # << >>

\* ExpenseEntry.__post_init__
ExpenseEntry_post_init(e) == ~(e.amount < 0) /\ Strip(e.category) # << >>

\* Python's  x or ""  and  x or None  on a column read back from a row
OrEmpty(x) == IF x \in {None, Empty} THEN Empty ELSE x
OrNone(x) == IF x \in {None, Empty} THEN None ELSE x

\* a read that hands the alias column back as stored
IncomeEntryOfRow_raw(r) ==
    [id |-> r.id, date |-> r.date, source |-> r.source, amount |-> r.amount,
     description |-> OrEmpty(r.description), alias |-> r.alias]

\* the IncomeEntry that get_all_income builds from a row
IncomeEntryOfRow(r) ==
    [id |-> r.id, date |-> r.date, source |-> r.source, amount |-> r.amount,
     description |-> OrEmpty(r.description), alias |-> OrNone(r.alias)]

\* the IncomeEntry that delete_income builds from the deleted row
DeletedIncomeEntry(r) ==
    [id |-> r.id, date |-> r.date, source |-> r.source, amount |-> r.amount,
     description |-> OrEmpty(r.description), alias |-> OrEmpty(r.alias)]

\* the ExpenseEntry that get_all_expenses and delete_expense build from a row
ExpenseEntryOfRow(r) ==
    [id |-> r.id, date |-> r.date, category |-> r.category, amount |-> r.amount,
     description |-> OrEmpty(r.description), alias |-> OrNone(r.alias)]

\* BudgetManager.add_income of an entry built from these fields
add_income(e) ==
    /\ Room
    /\ IF ~IncomeEntry_post_init(e)
          THEN /\ last' = [op |-> "add_income", err |-> "ValueError"]
               /\ UNCHANGED <<tables, seq>>
          ELSE /\ Commit(Insert(DB, "income",
                    [date |-> e.date, source |-> e.source, amount |-> e.amount,
                     description |-> e.description, alias |-> e.alias,
                     created_at |-> clock]))
               /\ last' = [op |-> "add_income", err |-> "", entry |-> e,
                           ret |-> NextRowid(DB, "income")]
    /\ UNCHANGED clock

\* BudgetManager.add_expense
add_expense(e) ==
    /\ Room
    /\ IF ~ExpenseEntry_post_init(e)
          THEN /\ last' = [op |-> "add_expense", err |-> "ValueError"]
               /\ UNCHANGED <<tables, seq>>
          ELSE /\ Commit(Insert(DB, "expenses",
                    [date |-> e.date, category |-> e.category, amount |-> e.amount,
                     description |-> e.description, alias |-> e.alias,
                     created_at |-> clock]))
               /\ last' = [op |-> "add_expense", err |-> "", entry |-> e,
                           ret |-> NextRowid(DB, "expenses")]
    /\ UNCHANGED clock

\* BudgetManager.delete_income: the DELETE is committed, then the row count
\* decides between the returned entry, the not-found error and the assertion
delete_income(id_input) ==
    LET hit == {r \in tables["income"] : r.id = id_input}
    IN  /\ Commit(DeleteById(DB, "income", id_input))
        /\ last' = IF Cardinality(hit) > 1
                      THEN [op |-> "delete_income", err |-> "AssertionError"]
                   ELSE IF Cardinality(hit) = 1
                      THEN [op |-> "delete_income", err |-> "",
                            ret |-> DeletedIncomeEntry(CHOOSE r \in hit : TRUE)]
                   ELSE [op |-> "delete_income", err |-> "KeyError"]
        /\ UNCHANGED clock

\* BudgetManager.delete_expense
delete_expense(id_input) ==
    LET hit == {r \in tables["expenses"] : r.id = id_input}
    IN  /\ Commit(DeleteById(DB, "expenses", id_input))
        /\ last' = IF Cardinality(hit) > 1
                      THEN [op |-> "delete_expense", err |-> "AssertionError"]
                   ELSE IF Cardinality(hit) = 1
                      THEN [op |-> "delete_expense", err |-> "",
                            ret |-> ExpenseEntryOfRow(CHOOSE r \in hit : TRUE)]
                   ELSE [op |-> "delete_expense", err |-> "KeyError"]
        /\ UNCHANGED clock

---------------------------------------------------------------------------
(* BudgetManager: reading entries back *)

StrLT(a, b) == StrLE(a, b) /\ a # b

\* ORDER BY date DESC, created_at DESC: row a may come right before row b
MayPrecede(a, b) ==
    \/ StrLT(b.date, a.date)
    \/ a.date = b.date /\ a.created_at >= b.created_at

\* every order in which the query may list the rows: rows that agree on both
\* sort keys come in an order the query does not fix
Listings(rows) ==
    LET n == Cardinality(rows)
    IN  {p \in [1 .. n -> rows] :
            /\ \A i, j \in 1 .. n : i # j => p[i] # p[j]
            /\ \A i \in 1 .. n - 1 : MayPrecede(p[i], p[i + 1])}

\* BudgetManager.get_all_income: the lists the call may return
get_all_income(db) ==
    {[i \in DOMAIN p |-> IncomeEntryOfRow(p[i])] : p \in Listings(db.tables["income"])}

\* BudgetManager.get_all_expenses
get_all_expenses(db) ==
    {[i \in DOMAIN p |-> ExpenseEntryOfRow(p[i])] : p \in Listings(db.tables["expenses"])}

\* a WHERE clause that stops short of the end date
InRange_halfopen(date, start_date, end_date) ==
    StrLE(start_date, date) /\ StrLT(date, end_date)

\* WHERE date >= ? AND date <= ?
InRange(date, start_date, end_date) ==
    StrLE(start_date, date) /\ StrLE(date, end_date)

\* BudgetManager.get_income_by_date_range, as the set of entries returned
get_income_by_date_range(db, start_date, end_date) ==
    {IncomeEntryOfRow(r) :
        r \in {x \in db.tables["income"] : InRange(x.date, start_date, end_date)}}

\* BudgetManager.get_expenses_by_date_range, as the set of entries returned
get_expenses_by_date_range(db, start_date, end_date) ==
    {ExpenseEntryOfRow(r) :
        r \in {x \in db.tables["expenses"] : InRange(x.date, start_date, end_date)}}

\* sum(entry.amount for entry in entries)
RECURSIVE SumAmounts(_)
SumAmounts(entries) ==
    IF entries = {} THEN 0
    ELSE LET e == CHOOSE x \in entries : TRUE
         IN  e.amount + SumAmounts(entries \ {e})

\* the start_date and end_date that the monthly totals compute
MonthStart(year, month) == Fmt(year) \o Hyphen \o Fmt02(month) \o Hyphen \o Fmt02(1)
MonthEnd(year, month) ==
    IF month = 12
       THEN Fmt(year + 1) \o Hyphen \o Fmt02(1) \o Hyphen \o Fmt02(1)
       ELSE Fmt(year) \o Hyphen \o Fmt02(month + 1) \o Hyphen \o Fmt02(1)

\* BudgetManager.get_total_income_by_month
get_total_income_by_month(year, month) ==
    /\ last' = [op |-> "get_total_income_by_month", year |-> year, month |-> month,
                ret |-> SumAmounts(get_income_by_date_range(
                            DB, MonthStart(year, month), MonthEnd(year, month)))]
    /\ UNCHANGED <<tables, seq, clock>>

\* BudgetManager.get_total_expenses_by_month
get_total_expenses_by_month(year, month) ==
    /\ last' = [op |-> "get_total_expenses_by_month", year |-> year, month |-> month,
                ret |-> SumAmounts(get_expenses_by_date_range(
                            DB, MonthStart(year, month), MonthEnd(year, month)))]
    /\ UNCHANGED <<tables, seq, clock>>

\* a call of get_income_by_date_range; the entries it returns are recorded
call_get_income_by_date_range(start_date, end_date) ==
    /\ last' = [op |-> "get_income_by_date_range", start |-> start_date,
                end |-> end_date,
                ret |-> get_income_by_date_range(DB, start_date, end_date)]
    /\ UNCHANGED <<tables, seq, clock>>

\* a call of get_expenses_by_date_range
call_get_expenses_by_date_range(start_date, end_date) ==
    /\ last' = [op |-> "get_expenses_by_date_range", start |-> start_date,
                end |-> end_date,
                ret |-> get_expenses_by_date_range(DB, start_date, end_date)]
    /\ UNCHANGED <<tables, seq, clock>>

---------------------------------------------------------------------------
(* BudgetManager: aliases *)

\* AliasEntry.__post_init__
AliasEntry_post_init(a) ==
    /\ Strip(a.alias) # << >>
    /\ Strip(a.full_name) # << >>
    /\ a.type \in {"income", "expenses"}

\* a lookup and a uniqueness rule on the alias code alone
AliasRows_anytype(db, alias, table) ==
    {r \in db.tables["aliases"] : r.alias = alias}

\* the rows SELECT * FROM aliases WHERE alias = ? AND type = ? finds
AliasRows(db, alias, table) ==
    {r \in db.tables["aliases"] : r.alias = alias /\ r.type = table}

\* BudgetManager.add_alias; UNIQUE (alias, type) refuses a second such row
add_alias(a) ==
    /\ Room
    /\ IF ~AliasEntry_post_init(a)
          THEN /\ last' = [op |-> "add_alias", err |-> "ValueError"]
               /\ UNCHANGED <<tables, seq>>
          ELSE IF AliasRows(DB, a.alias, a.type) # {}
          THEN /\ last' = [op |-> "add_alias", err |-> "KeyError"]
               /\ UNCHANGED <<tables, seq>>
          ELSE /\ Commit(Insert(DB, "aliases",
                    [alias |-> a.alias, full_name |-> a.full_name, type |-> a.type,
                     created_at |-> clock]))
               /\ last' = [op |-> "add_alias", err |-> "", entry |-> a,
                           ret |-> NextRowid(DB, "aliases")]
    /\ UNCHANGED clock

\* BudgetManager.delete_alias
delete_alias(alias, table) ==
    LET hit == AliasRows(DB, alias, table)
    IN  /\ Commit([DB EXCEPT !.tables["aliases"] = @ \ hit])
        /\ last' = IF Cardinality(hit) > 1
                      THEN [op |-> "delete_alias", err |-> "AssertionError"]
                   ELSE IF Cardinality(hit) = 1
                      THEN [op |-> "delete_alias", err |-> "",
                            ret |-> LET r == CHOOSE x \in hit : TRUE
                                    IN  [id |-> r.id, alias |-> r.alias,
                                         full_name |-> r.full_name, type |-> r.type]]
                   ELSE [op |-> "delete_alias", err |-> "KeyError"]
        /\ UNCHANGED clock

---------------------------------------------------------------------------
(* BudgetManager.reindex_table *)

\* f"{table_name}_temp"
TempName(t) ==
    CASE t = "income" -> "income_temp"
      [] t = "expenses" -> "expenses_temp"
      [] t = "aliases" -> "aliases_temp"
      [] t = "budget_limits" -> "budget_limits_temp"
      [] t = "savings_goals" -> "savings_goals_temp"
      [] OTHER -> "nosuch_temp"

\* whether the stored CREATE statement names the table in double quotes, as
\* the statements of BudgetManager do and the one of GoalTracker does not
QuotedInSchema(t) == t # "savings_goals"

\* the table that the rewritten CREATE statement creates: the shadow table
\* when the text CREATE TABLE "t" was found and replaced, else t again
ShadowTarget(t) == IF QuotedInSchema(t) THEN TempName(t) ELSE t

WithoutId(r) == [f \in DOMAIN r \ {"id"} |-> r[f]]

\* a copy that reads the rows in the order of the old id, largest first
RECURSIVE CopyRows_desc(_, _, _)
CopyRows_desc(db, rows, temp) ==
    IF rows = {} THEN db
    ELSE LET r == CHOOSE x \in rows : \A y \in rows : x.id >= y.id
         IN  CopyRows_desc(Insert(db, temp, WithoutId(r)), rows \ {r}, temp)

\* INSERT INTO temp (columns) SELECT columns FROM t ORDER BY id ASC
RECURSIVE CopyRows(_, _, _)
CopyRows(db, rows, temp) ==
    IF rows = {} THEN db
    ELSE LET r == CHOOSE x \in rows : \A y \in rows : x.id <= y.id
         IN  CopyRows(Insert(db, temp, WithoutId(r)), rows \ {r}, temp)

\* a drop that leaves the name in place
DropName_none(f, n) == f

\* DROP TABLE n, and DELETE FROM sqlite_sequence WHERE name = n, on a name ->
\* value map
DropName(f, n) == [x \in DOMAIN f \ {n} |-> f[x]]

\* ALTER TABLE a RENAME TO b, on a name -> value map
RenameName(f, a, b) ==
    IF a \in DOMAIN f
       THEN [x \in (DOMAIN f \ {a}) \cup {b} |-> IF x = b THEN f[a] ELSE f[x]]
       ELSE f

Ok(db) == [err |-> "", db |-> db]
Failed(e, db) == [err |-> e, db |-> db]

\* the k-th statement of the transaction, run on db
ReindexStep(k, db, t) ==
    LET temp == TempName(t) IN
    CASE k = 1 ->   \* read the CREATE statement of t
            IF t \in DOMAIN db.tables THEN Ok(db) ELSE Failed("TypeError", db)
      [] k = 2 ->   \* create the shadow table
            IF ShadowTarget(t) \in DOMAIN db.tables
               THEN Failed("ValueError", db)
               ELSE Ok([db EXCEPT !.tables =
                          [n \in DOMAIN db.tables \cup {temp} |->
                              IF n = temp THEN {} ELSE db.tables[n]]])
      [] k = 3 ->   \* read the column names
            Ok(db)
      [] k = 4 ->   \* copy the rows in the order of the old id
            Ok(CopyRows(db, db.tables[t], temp))
      [] k = 5 ->   \* drop the original, and with it its sqlite_sequence row
            Ok([tables |-> DropName(db.tables, t), seq |-> DropName(db.seq, t)])
      [] k = 6 ->   \* rename the shadow table, and its sqlite_sequence row
            Ok([tables |-> RenameName(db.tables, temp, t),
                seq |-> RenameName(db.seq, temp, t)])
      [] OTHER ->   \* delete the sqlite_sequence row of t
            Ok([db EXCEPT !.seq = DropName(db.seq, t)])

ReindexSteps == 7

\* the statements from the k-th on; failAt names the statement (or, past the
\* last one, the commit) at which the database engine reports an error
RECURSIVE ReindexRun(_, _, _, _)
ReindexRun(k, db, t, failAt) ==
    IF k = failAt THEN Failed("ValueError", db)
    ELSE IF k > ReindexSteps THEN Ok(db)
    ELSE LET r == ReindexStep(k, db, t)
         IN  IF r.err # "" THEN r ELSE ReindexRun(k + 1, r.db, t, failAt)

\* an exit that keeps what the statements before the error did
Rollback_partial(before, partial) == partial

\* the connection's exit on an exception: the transaction is rolled back
Rollback(before, partial) == before

\* BudgetManager.reindex_table
reindex_table(t, failAt) ==
    LET r == ReindexRun(1, DB, t, failAt)
    IN  /\ IF r.err = ""
              THEN /\ Commit(r.db)
                   /\ last' = [op |-> "reindex_table", tbl |-> t, failAt |-> failAt,
                               was |-> Ids(DB, t), err |-> "", ret |-> TRUE]
              ELSE /\ Commit(Rollback(DB, r.db))
                   /\ last' = [op |-> "reindex_table", tbl |-> t, failAt |-> failAt,
                               err |-> r.err]
        /\ UNCHANGED clock

---------------------------------------------------------------------------
(* GoalTracker *)

GoalT == "savings_goals"

\* SavingsGoal.__post_init__: TRUE when the constructor accepts the fields
SavingsGoal_post_init(g) ==
    /\ ~(g.target_amount <= 0)
    /\ ~(g.current_amount < 0)
    /\ Strip(g.name) # << >>
    /\ validate_date(g.target_date)
    /\ validate_date(g.created_date)

\* a lookup that falls back on any stored goal
get_goal_by_id_any(db, goal_id) ==
    LET rows == IF goal_id \in Ids(db, GoalT)
                   THEN {x \in db.tables[GoalT] : x.id = goal_id}
                   ELSE db.tables[GoalT]
    IN  {[id |-> r.id, name |-> r.name, target_amount |-> r.target_amount,
          current_amount |-> r.current_amount, target_date |-> r.target_date,
          category |-> r.category,
          description |-> IF r.description \in {None, Empty} THEN Empty ELSE r.description,
          is_completed |-> r.is_completed, created_date |-> r.created_date] : r \in rows}

\* the object get_goal_by_id builds from the row with this id; a one-element
\* set, or empty when no row matches
get_goal_by_id(db, goal_id) ==
    {[id |-> r.id, name |-> r.name, target_amount |-> r.target_amount,
      current_amount |-> r.current_amount, target_date |-> r.target_date,
      category |-> r.category,
      description |-> IF r.description \in {None, Empty} THEN Empty ELSE r.description,
      is_completed |-> r.is_completed, created_date |-> r.created_date]
        : r \in {x \in db.tables[GoalT] : x.id = goal_id}}

\* an UPDATE without its WHERE clause
UpdateGoalRow_all(db, g) ==
    [db EXCEPT !.tables[GoalT] =
        {[r EXCEPT !.name = g.name, !.target_amount = g.target_amount,
                   !.current_amount = g.current_amount,
                   !.target_date = g.target_date, !.category = g.category,
                   !.description = g.description,
                   !.is_completed = g.is_completed] : r \in @}]

\* the UPDATE of update_goal: every column but id, created_date, created_at
UpdateGoalRow(db, g) ==
    [db EXCEPT !.tables[GoalT] =
        {IF r.id = g.id
            THEN [r EXCEPT !.name = g.name, !.target_amount = g.target_amount,
                           !.current_amount = g.current_amount,
                           !.target_date = g.target_date, !.category = g.category,
                           !.description = g.description,
                           !.is_completed = g.is_completed]
            ELSE r : r \in @}]

\* a cap that recomputes the completion flag from the amounts
Progressed_recomputed(goal, amount) ==
    LET sum == goal.current_amount + amount
    IN  IF sum >= goal.target_amount
           THEN [goal EXCEPT !.current_amount = goal.target_amount, !.is_completed = TRUE]
           ELSE [goal EXCEPT !.current_amount = sum, !.is_completed = FALSE]

\* a cap that fires only past the target
Progressed_strict(goal, amount) ==
    LET sum == goal.current_amount + amount
    IN  IF sum > goal.target_amount
           THEN [goal EXCEPT !.current_amount = goal.target_amount, !.is_completed = TRUE]
           ELSE [goal EXCEPT !.current_amount = sum]

\* a completion that leaves the sum as it is
Progressed_uncapped(goal, amount) ==
    LET sum == goal.current_amount + amount
    IN  IF sum >= goal.target_amount
           THEN [goal EXCEPT !.current_amount = sum, !.is_completed = TRUE]
           ELSE [goal EXCEPT !.current_amount = sum]

\* the goal object after add_progress has added the amount and capped it
Progressed(goal, amount) ==
    LET sum == goal.current_amount + amount
    IN  IF sum >= goal.target_amount
           THEN [goal EXCEPT !.current_amount = goal.target_amount, !.is_completed = TRUE]
           ELSE [goal EXCEPT !.current_amount = sum]

\* GoalTracker.add_goal of a goal built from these fields
add_goal(g) ==
    /\ Room
    /\ IF ~SavingsGoal_post_init(g)
          THEN /\ last' = [op |-> "add_goal", err |-> "ValueError"]
               /\ UNCHANGED <<tables, seq>>
          ELSE /\ Commit(Insert(DB, GoalT,
                    [name |-> g.name, target_amount |-> g.target_amount,
                     current_amount |-> g.current_amount, target_date |-> g.target_date,
                     category |-> g.category, description |-> g.description,
                     is_completed |-> g.is_completed, created_date |-> g.created_date,
                     created_at |-> clock]))
               /\ last' = [op |-> "add_goal", err |-> "", ret |-> NextRowid(DB, GoalT)]
    /\ UNCHANGED clock

\* a check that lets a zero amount through
RejectedAmount_negative(amount) == amount < 0

\* the guard of add_progress on its amount
RejectedAmount(amount) == amount <= 0

\* what GoalTracker.add_progress does to the database, and the error it reports
add_progress_call(db, goal_id, amount) ==
    IF RejectedAmount(amount)
       THEN [db |-> db, err |-> "Progress amount must be positive"]
    ELSE IF get_goal_by_id(db, goal_id) = {}
       THEN [db |-> db, err |-> "Goal not found"]
    ELSE LET goal == CHOOSE g \in get_goal_by_id(db, goal_id) : TRUE
         IN  IF ~SavingsGoal_post_init(goal)
                THEN [db |-> db, err |-> "ValueError"]
                ELSE [db |-> UpdateGoalRow(db, Progressed(goal, amount)), err |-> ""]

\* GoalTracker.add_progress
add_progress(goal_id, amount) ==
    /\ LET call == add_progress_call(DB, goal_id, amount)
       IN  /\ last' = IF call.err = ""
                          THEN [op |-> "add_progress", id |-> goal_id,
                                amount |-> amount, err |-> "", ret |-> TRUE]
                          ELSE [op |-> "add_progress", err |-> call.err]
           /\ Commit(call.db)
    /\ UNCHANGED clock

\* GoalTracker.delete_goal
delete_goal(goal_id) ==
    /\ Commit(DeleteById(DB, GoalT, goal_id))
    /\ last' = [op |-> "delete_goal", err |-> "", ret |-> goal_id \in Ids(DB, GoalT)]
    /\ UNCHANGED clock

---------------------------------------------------------------------------
(* Entries and aliases: the inputs and the specification *)

Txt_job == <<106, 111, 98>>
Txt_a == <<97>>
Txt_note == <<110>>

EntryDate == DateStr(2025, 1, 15)
EntryAliases == {None, Empty, Txt_a}

IncomeInputs ==
    [date : {EntryDate}, source : {Txt_job, Blank}, amount : {5, -1},
     description : {Empty, Txt_note}, alias : EntryAliases]

ExpenseInputs ==
    [date : {EntryDate}, category : {Txt_job, Blank}, amount : {5, -1},
     description : {Empty, Txt_note}, alias : EntryAliases]

AliasInputs ==
    [alias : {Txt_a, Blank}, full_name : {Txt_job}, type : {"income", "expenses", "goals"}]

AliasKeys == {Txt_a, Txt_job} \X {"income", "expenses"}

EntryIds == 1 .. (MaxId + 1)

Next ==
    \/ \E e \in IncomeInputs : add_income(e)
    \/ \E e \in ExpenseInputs : add_expense(e)
    \/ \E a \in AliasInputs : add_alias(a)
    \/ \E id \in EntryIds : delete_income(id)
    \/ \E id \in EntryIds : delete_expense(id)
    \/ \E k \in AliasKeys : delete_alias(k[1], k[2])

Spec == Init /\ [][Next]_vars

---------------------------------------------------------------------------
(* Re-indexing: the inputs and the specification *)

ReindexInputs ==
    [date : {EntryDate}, source : {Txt_job}, amount : {5},
     description : {Empty}, alias : {None, Txt_a}]

ReindexTargets == TableNames \cup {"nosuch"}
FailPoints == 0 .. (ReindexSteps + 1)

NextReindex ==
    \/ \E e \in ReindexInputs : add_income(e)
    \/ \E id \in EntryIds : delete_income(id)
    \/ \E t \in ReindexTargets, f \in FailPoints : reindex_table(t, f)
    \/ Tick

SpecReindex == Init /\ [][NextReindex]_vars

---------------------------------------------------------------------------
(* Monthly totals: the inputs and the specification *)

MonthDates == {DateStr(2025, 11, 30), DateStr(2025, 12, 1), DateStr(2026, 1, 1)}
MonthAmounts == {1, 2}
MonthQueries == {<<2025, 11>>, <<2025, 12>>}

RangeQueries == MonthDates \X MonthDates

MonthIncomeInputs ==
    [date : MonthDates, source : {Txt_job}, amount : MonthAmounts,
     description : {Empty}, alias : {None}]

MonthExpenseInputs ==
    [date : MonthDates, category : {Txt_job}, amount : MonthAmounts,
     description : {Empty}, alias : {None}]

NextMonth ==
    \/ \E e \in MonthIncomeInputs : add_income(e)
    \/ \E e \in MonthExpenseInputs : add_expense(e)
    \/ \E q \in MonthQueries : get_total_income_by_month(q[1], q[2])
    \/ \E q \in MonthQueries : get_total_expenses_by_month(q[1], q[2])
    \/ \E r \in RangeQueries : call_get_income_by_date_range(r[1], r[2])
    \/ \E r \in RangeQueries : call_get_expenses_by_date_range(r[1], r[2])

SpecMonth == Init /\ [][NextMonth]_vars

---------------------------------------------------------------------------
(* Properties of the store *)

DBNext == [tables |-> tables', seq |-> seq']

\* the date is a day of the given month
InMonth(date, year, month) == \E d \in 1 .. 31 : date = DateStr(year, month, d)

\* C1: the monthly totals sum exactly the entries dated in the month: from its
\* first day on, and before the first day of the next month.
C1_MonthTotalHalfOpen ==
    /\ last.op = "get_total_expenses_by_month"
        => last.ret = SumAmounts({ExpenseEntryOfRow(r) :
                r \in {x \in tables["expenses"] : InMonth(x.date, last.year, last.month)}})
    /\ last.op = "get_total_income_by_month"
        => last.ret = SumAmounts({IncomeEntryOfRow(r) :
                r \in {x \in tables["income"] : InMonth(x.date, last.year, last.month)}})

\* the position of row r among the rows, by id
Rank(r, rows) == Cardinality({x \in rows : x.id <= r.id})

\* C2: a successful reindex_table leaves the table with ids 1..n, gives the row
\* with the k-th smallest old id the id k, and changes no other column and not
\* the number of rows.
C2_ReindexRenumbers ==
    [][(last'.op = "reindex_table" /\ last'.err = ""
            /\ reindex_table(last'.tbl, last'.failAt))
        => /\ last'.tbl \in DOMAIN tables /\ last'.tbl \in DOMAIN tables'
           /\ LET old == tables[last'.tbl]
                  new == tables'[last'.tbl]
                  n == Cardinality(old)
              IN  /\ Cardinality(new) = n
                  /\ {r.id : r \in new} = 1 .. n
                  /\ \A r \in old : \E r2 \in new :
                        /\ r2.id = Rank(r, old)
                        /\ \A c \in DOMAIN r \ {"id"} : r2[c] = r[c]]_vars

\* income was re-indexed from ids with a gap, its two rows differing in
\* created_at
C2_Witness ==
    /\ last.op = "reindex_table" /\ last.err = "" /\ last.tbl = "income"
    /\ last.was = {2, 3}
    /\ \E r1, r2 \in tables["income"] :
          r1.id = 1 /\ r2.id = 2 /\ r1.created_at < r2.created_at /\ clock = r2.created_at

C8_DeleteMissing ==
    [][/\ last'.op = "delete_income" => \A id \in EntryIds :
            (id \notin Ids(DB, "income") /\ delete_income(id))
            => last'.err = "KeyError" /\ tables' = tables /\ seq' = seq
       /\ last'.op = "delete_expense" => \A id \in EntryIds :
            (id \notin Ids(DB, "expenses") /\ delete_expense(id))
            => last'.err = "KeyError" /\ tables' = tables /\ seq' = seq
       /\ last'.op = "delete_alias" => \A k \in AliasKeys :
            (AliasRows(DB, k[1], k[2]) = {} /\ delete_alias(k[1], k[2]))
            => last'.err = "KeyError" /\ tables' = tables /\ seq' = seq]_vars

\* a delete_income found no row although income and expenses hold rows
C8_Witness ==
    /\ last.op = "delete_income" /\ last.err = "KeyError"
    /\ tables["income"] # {} /\ tables["expenses"] # {}

UniqueIds(tbls) ==
    \A t \in DOMAIN tbls : \A r1, r2 \in tbls[t] : r1.id = r2.id => r1 = r2

\* C9: delete_income / delete_expense on an existing id removes exactly the row
\* with that id, returns an entry whose fields equal the stored fields of that
\* row, and changes nothing else; no two rows of a table ever share an id.
C9_DeleteExisting ==
    [][/\ last'.op = "delete_income" => \A id \in EntryIds :
            (id \in Ids(DB, "income") /\ delete_income(id))
            => \E r \in tables["income"] :
                  /\ r.id = id /\ last'.err = ""
                  /\ tables' = [tables EXCEPT !["income"] = @ \ {r}]
                  /\ last'.ret = [id |-> r.id, date |-> r.date, source |-> r.source,
                                  amount |-> r.amount, description |-> r.description,
                                  alias |-> r.alias]
       /\ last'.op = "delete_expense" => \A id \in EntryIds :
            (id \in Ids(DB, "expenses") /\ delete_expense(id))
            => \E r \in tables["expenses"] :
                  /\ r.id = id /\ last'.err = ""
                  /\ tables' = [tables EXCEPT !["expenses"] = @ \ {r}]
                  /\ last'.ret = [id |-> r.id, date |-> r.date, category |-> r.category,
                                  amount |-> r.amount, description |-> r.description,
                                  alias |-> r.alias]
       /\ UniqueIds(tables')]_vars

\* the entry with this id in a list returned by get_all_income / get_all_expenses
Retrieved(list, id) == {list[k] : k \in {i \in DOMAIN list : list[i].id = id}}

\* C10 as claimed: after add_income / add_expense returns an id, the entry
\* retrieved under that id has the date, source/category, amount, description
\* and alias of the entry that was added.
C10_RoundTripIdentical ==
    [][/\ (last'.op = "add_income" /\ last'.err = "") => \A e \in {last'.entry} :
            add_income(e)
            => \A list \in get_all_income(DBNext) :
                  Retrieved(list, last'.ret) =
                     {[id |-> last'.ret, date |-> e.date, source |-> e.source,
                       amount |-> e.amount, description |-> e.description,
                       alias |-> e.alias]}
       /\ (last'.op = "add_expense" /\ last'.err = "") => \A e \in {last'.entry} :
            add_expense(e)
            => \A list \in get_all_expenses(DBNext) :
                  Retrieved(list, last'.ret) =
                     {[id |-> last'.ret, date |-> e.date, category |-> e.category,
                       amount |-> e.amount, description |-> e.description,
                       alias |-> e.alias]}]_vars

\* C10 as amended: the retrieved entry has the date, source/category, amount
\* and description of the added entry, and its alias when that is not empty;
\* an empty alias is retrieved as absent.
C10_RoundTripUpToEmptyAlias ==
    [][/\ (last'.op = "add_income" /\ last'.err = "") => \A e \in {last'.entry} :
            add_income(e)
            => \A list \in get_all_income(DBNext) :
                  Retrieved(list, last'.ret) =
                     {[id |-> last'.ret, date |-> e.date, source |-> e.source,
                       amount |-> e.amount, description |-> e.description,
                       alias |-> IF e.alias = Empty THEN None ELSE e.alias]}
       /\ (last'.op = "add_expense" /\ last'.err = "") => \A e \in {last'.entry} :
            add_expense(e)
            => \A list \in get_all_expenses(DBNext) :
                  Retrieved(list, last'.ret) =
                     {[id |-> last'.ret, date |-> e.date, category |-> e.category,
                       amount |-> e.amount, description |-> e.description,
                       alias |-> IF e.alias = Empty THEN None ELSE e.alias]}]_vars

\* an income entry with an empty alias and a description was added next to
\* another row
C10_Witness ==
    /\ last.op = "add_income" /\ last.err = ""
    /\ last.entry.alias = Empty /\ last.entry.description = Txt_note
    /\ last.ret \in Ids(DB, "income")
    /\ Cardinality(tables["income"]) = 2

---------------------------------------------------------------------------
(* Goals: the inputs and the specification *)

Txt_car == <<99, 97, 114>>

GoalNames == {Txt_car, Blank}
GoalTargets == {0, 2, 3}
GoalCurrents == {-1, 0, 5}
GoalDates == {DateStr(2026, 6, 30), DateStr(2025, 2, 30)}
ProgressAmounts == {-1, 0, 1, 2}
GoalIds == 1 .. (MaxId + 1)

GoalInputs ==
    [name : GoalNames, target_amount : GoalTargets, current_amount : GoalCurrents,
     target_date : GoalDates, category : {Txt_car}, description : {Empty},
     is_completed : BOOLEAN, created_date : {DateStr(2025, 1, 15)}]

NextGoal ==
    \/ \E g \in GoalInputs : add_goal(g)
    \/ \E id \in GoalIds, a \in ProgressAmounts : add_progress(id, a)
    \/ \E id \in GoalIds : delete_goal(id)

SpecGoal == Init /\ [][NextGoal]_vars

GoalRow(tbls, id) == CHOOSE r \in tbls[GoalT] : r.id = id

\* C4: add_progress with a positive amount on an existing goal succeeds and
\* stores old current_amount + amount with is_completed unchanged when the sum
\* is below target_amount, and current_amount = target_amount with
\* is_completed = TRUE when the sum reaches or exceeds it.
C4_AddProgressStores ==
    /\ [](\A id \in Ids(DB, GoalT), a \in ProgressAmounts :
            a > 0 => add_progress_call(DB, id, a).err = "")
    /\ [][(last'.op = "add_progress" /\ last'.err = "")
            => /\ last'.amount > 0
               /\ last'.id \in Ids(DB, GoalT) /\ last'.id \in Ids(DBNext, GoalT)
               /\ LET old == GoalRow(tables, last'.id)
                      new == GoalRow(tables', last'.id)
                      sum == old.current_amount + last'.amount
                  IN  IF sum < old.target_amount
                         THEN /\ new.current_amount = sum
                              /\ new.is_completed = old.is_completed
                         ELSE /\ new.current_amount = old.target_amount
                              /\ new.is_completed = TRUE]_vars

\* add_progress has just brought an active goal exactly to its target
C4_Witness ==
    /\ last.op = "add_progress" /\ last.err = "" /\ last.amount = 2
    /\ \E r \in tables[GoalT] :
          /\ r.id = last.id /\ r.is_completed
          /\ r.current_amount = r.target_amount /\ r.target_amount = 2

\* C5: add_progress with amount <= 0 fails with the validation error and leaves
\* every stored goal unchanged, whether or not the id exists.
C5_NonPositiveRejected ==
    [][last'.op = "add_progress" => \A id \in GoalIds, a \in ProgressAmounts :
        (a <= 0 /\ add_progress(id, a))
        => /\ last'.err = "Progress amount must be positive"
           /\ tables' = tables /\ seq' = seq]_vars

\* a non-positive amount was refused while a goal is stored
C5_Witness ==
    /\ last.op = "add_progress" /\ last.err = "Progress amount must be positive"
    /\ tables[GoalT] # {}

\* C6: once a goal is stored as completed, it is still completed after every
\* later add_progress.
C6_CompletionOneWay ==
    [][last'.op = "add_progress"
        => \A r \in tables[GoalT] : r.is_completed =>
              \A r2 \in tables'[GoalT] : r2.id = r.id => r2.is_completed]_vars

\* add_progress succeeded on a completed goal that stays below its target
C6_Witness ==
    /\ last.op = "add_progress" /\ last.err = ""
    /\ \E r \in tables[GoalT] :
          r.id = last.id /\ r.is_completed /\ r.current_amount < r.target_amount

\* C7: every successful add_progress on a stored goal leaves its current_amount
\* greater than or equal to what it was.
C7_ProgressMonotone ==
    [][(last'.op = "add_progress" /\ last'.err = "")
        => \A r \in tables[GoalT] : \A r2 \in tables'[GoalT] :
              r2.id = r.id => r2.current_amount >= r.current_amount]_vars

---------------------------------------------------------------------------
(* Listing and date ranges *)

\* the list runs by date descending and, on one date, from the row added last
\* to the row added first; ids grow with every add
ListedNewestFirst(L) ==
    \A i, j \in DOMAIN L :
        i < j => \/ StrLT(L[j].date, L[i].date)
                 \/ L[j].date = L[i].date /\ L[i].id > L[j].id

\* C11: every list get_all_income or get_all_expenses may return holds all
\* rows, sorted by date descending and, among rows of one date, with the row
\* added later first, also when the rows were added within the same second.
C11_GetAllNewestFirst ==
    /\ \A L \in get_all_income(DB) :
          /\ {L[i].id : i \in DOMAIN L} = Ids(DB, "income")
          /\ ListedNewestFirst(L)
    /\ \A L \in get_all_expenses(DB) :
          /\ {L[i].id : i \in DOMAIN L} = Ids(DB, "expenses")
          /\ ListedNewestFirst(L)

\* the day a fixed-width ISO date string names, as one number
DayNumber(date) ==
    ToInt(SubSeq(date, 1, 4)) * 10000 + ToInt(SubSeq(date, 6, 7)) * 100
        + ToInt(SubSeq(date, 9, 10))

\* the day lies between the two days, both included
Between(date, start_date, end_date) ==
    DayNumber(start_date) <= DayNumber(date) /\ DayNumber(date) <= DayNumber(end_date)

\* C12: get_income_by_date_range(start, end) and get_expenses_by_date_range(start,
\* end) return exactly the stored entries whose date lies from start to end,
\* both bounds included, and nothing else.
C12_DateRangeInclusive ==
    /\ last.op = "get_income_by_date_range"
        => last.ret = {IncomeEntryOfRow(r) :
                          r \in {x \in tables["income"] :
                                    Between(x.date, last.start, last.end)}}
    /\ last.op = "get_expenses_by_date_range"
        => last.ret = {ExpenseEntryOfRow(r) :
                          r \in {x \in tables["expenses"] :
                                    Between(x.date, last.start, last.end)}}

\* a range query returned the expense dated on its end date and left out the
\* expense dated after it
C12_Witness ==
    /\ last.op = "get_expenses_by_date_range"
    /\ last.start # last.end
    /\ \E e \in last.ret : e.date = last.end
    /\ \E x \in tables["expenses"] : StrLT(last.end, x.date)

---------------------------------------------------------------------------
(* BudgetManager: budget limits *)

\* BudgetLimit.__post_init__
BudgetLimit_post_init(b) == ~(b.monthly_limit < 0) /\ Strip(b.category) # << >>

\* the rows SELECT * FROM budget_limits WHERE category = ? finds
LimitRows(db, category) == {r \in db.tables["budget_limits"] : r.category = category}

\* the BudgetLimit that the readers build from a row
BudgetLimitOfRow(r) ==
    [id |-> r.id, category |-> r.category, monthly_limit |-> r.monthly_limit,
     description |-> OrEmpty(r.description)]

\* INSERT OR IGNORE: a row of the same category stays as it is
InsertOrIgnore(db, cols) ==
    IF LimitRows(db, cols.category) # {} THEN db ELSE Insert(db, "budget_limits", cols)

\* INSERT OR REPLACE: UNIQUE (category) removes the row in the way, then the
\* new row is inserted under a new id
InsertOrReplace(db, cols) ==
    Insert([db EXCEPT !.tables["budget_limits"] = @ \ LimitRows(db, cols.category)],
           "budget_limits", cols)

\* BudgetManager.set_budget_limit of a limit built from these fields
set_budget_limit(b) ==
    /\ NextRowid(DB, "budget_limits") <= MaxLimitId
    /\ IF ~BudgetLimit_post_init(b)
          THEN /\ last' = [op |-> "set_budget_limit", err |-> "ValueError"]
               /\ UNCHANGED <<tables, seq>>
          ELSE /\ last' = [op |-> "set_budget_limit", err |-> "", limit |-> b,
                           ret |-> NextRowid(DB, "budget_limits")]
               /\ Commit(InsertOrReplace(DB,
                    [category |-> b.category, monthly_limit |-> b.monthly_limit,
                     description |-> b.description, created_at |-> clock]))
    /\ UNCHANGED clock

\* BudgetManager.get_budget_limit: the limits the call may return, none when
\* the set is empty
get_budget_limit(db, category) == {BudgetLimitOfRow(r) : r \in LimitRows(db, category)}

\* BudgetManager.delete_budget_limit
delete_budget_limit(category) ==
    /\ last' = [op |-> "delete_budget_limit", category |-> category, err |-> "",
                ret |-> LimitRows(DB, category) # {}]
    /\ Commit([DB EXCEPT !.tables["budget_limits"] = @ \ LimitRows(DB, category)])
    /\ UNCHANGED clock

\* BudgetManager.get_all_budget_limits: ORDER BY category
get_all_budget_limits(db) ==
    LET rows == db.tables["budget_limits"]
        n == Cardinality(rows)
        p == CHOOSE q \in [1 .. n -> rows] :
                /\ \A i, j \in 1 .. n : i # j => q[i] # q[j]
                /\ \A i \in 1 .. n - 1 : StrLE(q[i].category, q[i + 1].category)
    IN  [i \in 1 .. n |-> BudgetLimitOfRow(p[i])]

\* BudgetManager.get_expenses_by_category_and_month
get_expenses_by_category_and_month(db, category, year, month) ==
    SumAmounts({e \in get_expenses_by_date_range(
                        db, MonthStart(year, month), MonthEnd(year, month)) :
                    e.category = category})

\* a quotient a / b * 100, kept as a fraction
Percent(a, b) == [num |-> a * 100, den |-> b]
NoPercent == [num |-> 0, den |-> 1]

\* the dictionary get_budget_status builds: one entry per listed limit
budget_status(db, year, month) ==
    LET limits == get_all_budget_limits(db)
        entry(b) ==
            LET spent == get_expenses_by_category_and_month(db, b.category, year, month)
            IN  [limit |-> b.monthly_limit,
                 spent |-> spent,
                 remaining |-> b.monthly_limit - spent,
                 percentage_used |-> IF b.monthly_limit > 0
                                        THEN Percent(spent, b.monthly_limit)
                                        ELSE NoPercent,
                 is_over_budget |-> spent > b.monthly_limit]
    IN  [c \in {limits[i].category : i \in DOMAIN limits} |->
            entry(limits[Max({i \in DOMAIN limits : limits[i].category = c})])]

\* BudgetManager.get_budget_status
get_budget_status(year, month) ==
    /\ last' = [op |-> "get_budget_status", year |-> year, month |-> month,
                ret |-> budget_status(DB, year, month)]
    /\ UNCHANGED <<tables, seq, clock>>

\* a filter that also lets through a category that just reached its limit
Alerted_reached(status_entry) == status_entry.spent >= status_entry.limit

\* the filter of get_overspending_alerts on a status entry
Alerted(status_entry) == status_entry.is_over_budget

\* the list get_overspending_alerts builds, in the order of the dictionary
overspending_alerts(db, year, month) ==
    LET status == budget_status(db, year, month)
        limits == get_all_budget_limits(db)
        alert(c) ==
            LET overspent_amount == status[c].spent - status[c].limit
            IN  [category |-> c, limit |-> status[c].limit, spent |-> status[c].spent,
                 overspent |-> overspent_amount,
                 percentage_over |-> IF status[c].limit > 0
                                        THEN Percent(overspent_amount, status[c].limit)
                                        ELSE NoPercent]
        RECURSIVE Alerts(_)
        Alerts(i) ==
            IF i > Len(limits) THEN << >>
            ELSE IF Alerted(status[limits[i].category])
                    THEN <<alert(limits[i].category)>> \o Alerts(i + 1)
                    ELSE Alerts(i + 1)
    IN  Alerts(1)

\* BudgetManager.get_overspending_alerts
get_overspending_alerts(year, month) ==
    /\ last' = [op |-> "get_overspending_alerts", year |-> year, month |-> month,
                ret |-> overspending_alerts(DB, year, month)]
    /\ UNCHANGED <<tables, seq, clock>>

---------------------------------------------------------------------------
(* Budget limits: the inputs, the specification and the properties *)

Txt_food == <<102, 111, 111, 100>>

LimitCategories == {Txt_food, Txt_job}

LimitInputs ==
    [category : LimitCategories \cup {Blank}, monthly_limit : {-1, 0, 2},
     description : {Empty, Txt_note}]

NextLimits ==
    \/ \E b \in LimitInputs : set_budget_limit(b)
    \/ \E c \in LimitCategories : delete_budget_limit(c)

SpecLimits == Init /\ [][NextLimits]_vars

\* what get_budget_limit reports of a category: the limit and the description,
\* or nothing
Reported(db, c) ==
    {[monthly_limit |-> b.monthly_limit, description |-> b.description] :
        b \in get_budget_limit(db, c)}

\* C13: there is at most one budget_limits row per category; right after a
\* set_budget_limit for c, get_budget_limit(c) returns the limit and description
\* just set; right after delete_budget_limit(c) it returns nothing; and no call
\* changes what get_budget_limit returns for any other category, so the answer
\* for c is always that of the most recent set or delete for c.
C13_LimitUpsert ==
    /\ [](\A r1, r2 \in tables["budget_limits"] : r1.category = r2.category => r1 = r2)
    /\ [][/\ (last'.op = "set_budget_limit" /\ last'.err = "")
             => /\ Reported(DBNext, last'.limit.category)
                       = {[monthly_limit |-> last'.limit.monthly_limit,
                           description |-> last'.limit.description]}
                /\ \A c \in LimitCategories \ {last'.limit.category} :
                       get_budget_limit(DBNext, c) = get_budget_limit(DB, c)
          /\ last'.op = "delete_budget_limit"
             => /\ get_budget_limit(DBNext, last'.category) = {}
                /\ \A c \in LimitCategories \ {last'.category} :
                       get_budget_limit(DBNext, c) = get_budget_limit(DB, c)
          /\ ~(last'.op \in {"set_budget_limit", "delete_budget_limit"} /\ last'.err = "")
             => \A c \in LimitCategories :
                   get_budget_limit(DBNext, c) = get_budget_limit(DB, c)]_vars

\* a limit was set for a category that had one, next to another category's limit
C13_Witness ==
    /\ last.op = "set_budget_limit" /\ last.err = "" /\ last.ret = 3
    /\ Ids(DB, "budget_limits") = {2, 3}
    /\ \E r \in tables["budget_limits"] :
          r.id = 3 /\ r.monthly_limit = 0 /\ r.description = Txt_note

---------------------------------------------------------------------------
(* Budget status and alerts: the inputs, the specification and the properties *)

BudgetDates == {DateStr(2025, 11, 30), DateStr(2025, 12, 1)}

BudgetExpenseInputs ==
    [date : BudgetDates, category : {Txt_food}, amount : {1, 2},
     description : {Empty}, alias : {None}]
    \cup [date : {DateStr(2025, 11, 30)}, category : {Txt_job}, amount : {2},
          description : {Empty}, alias : {None}]

BudgetLimitInputs ==
    [category : LimitCategories, monthly_limit : {0, 2}, description : {Empty}]

NextBudget ==
    \/ \E e \in BudgetExpenseInputs : add_expense(e)
    \/ \E b \in BudgetLimitInputs : set_budget_limit(b)
    \/ \E q \in MonthQueries : get_budget_status(q[1], q[2])
    \/ \E q \in MonthQueries : get_overspending_alerts(q[1], q[2])

SpecBudget == Init /\ [][NextBudget]_vars

\* the fraction is the quotient a / b * 100
IsPercentOf(p, a, b) == p.den # 0 /\ p.num * b = a * 100 * p.den

\* C14: get_budget_status(year, month) has exactly one entry per configured
\* limit and none for other categories; spent is the sum of the category's
\* expenses dated in the month, remaining = limit - spent, percentage_used =
\* spent / limit * 100 when limit > 0 and 0 when limit = 0, and is_over_budget =
\* (spent > limit).
C14_BudgetStatus ==
    last.op = "get_budget_status"
    => /\ DOMAIN last.ret = {r.category : r \in tables["budget_limits"]}
       /\ \A r \in tables["budget_limits"] :
            LET entry == last.ret[r.category]
                spent == SumAmounts({x \in tables["expenses"] :
                            /\ x.category = r.category
                            /\ InMonth(x.date, last.year, last.month)})
            IN  /\ entry.limit = r.monthly_limit
                /\ entry.spent = spent
                /\ entry.remaining = r.monthly_limit - spent
                /\ IF r.monthly_limit > 0
                      THEN IsPercentOf(entry.percentage_used, spent, r.monthly_limit)
                      ELSE entry.percentage_used.num = 0
                /\ entry.is_over_budget = (spent > r.monthly_limit)

\* C15: get_overspending_alerts(year, month) holds one alert for exactly the
\* categories whose budget status is over budget; each alert has overspent =
\* spent - limit > 0 and percentage_over = overspent / limit * 100, or 0 when
\* the limit is 0.
C15_OverspendingAlerts ==
    last.op = "get_overspending_alerts"
    => LET status == budget_status(DB, last.year, last.month)
           alerts == last.ret
       IN  /\ {alerts[i].category : i \in DOMAIN alerts}
                = {c \in DOMAIN status : status[c].is_over_budget}
           /\ \A i, j \in DOMAIN alerts :
                alerts[i].category = alerts[j].category => i = j
           /\ \A i \in DOMAIN alerts :
                LET entry == status[alerts[i].category]
                IN  /\ alerts[i].overspent = entry.spent - entry.limit
                    /\ alerts[i].overspent > 0
                    /\ IF entry.limit > 0
                          THEN IsPercentOf(alerts[i].percentage_over,
                                           alerts[i].overspent, entry.limit)
                          ELSE alerts[i].percentage_over.num = 0

\* the alerts name one of two limited categories: one is over its limit of 0,
\* the other has just reached its limit of 2
C15_Witness ==
    /\ last.op = "get_overspending_alerts"
    /\ Len(last.ret) = 1
    /\ last.ret[1].limit = 0 /\ last.ret[1].overspent = 1
    /\ \E r \in tables["budget_limits"] :
          /\ r.category # last.ret[1].category
          /\ r.monthly_limit = 2
          /\ budget_status(DB, last.year, last.month)[r.category].spent = 2

---------------------------------------------------------------------------
(* Aliases *)

\* the stored alias rows of this code and type
Stored(tbls, alias, type) == {r \in tbls["aliases"] : r.alias = alias /\ r.type = type}

\* C16: the aliases table holds at most one row per (alias, type) and every
\* row's type is 'income' or 'expenses'; add_alias of a pair that is stored
\* fails with the alias-exists error and leaves the table unchanged, and
\* add_alias of a valid alias whose pair is not stored, also when the code is
\* stored under the other type, succeeds and stores it.
C16_AliasUnique ==
    /\ [](\A r1, r2 \in tables["aliases"] :
            /\ r1.type \in {"income", "expenses"}
            /\ (r1.alias = r2.alias /\ r1.type = r2.type) => r1 = r2)
    /\ [][last'.op = "add_alias" => \A a \in AliasInputs :
            add_alias(a) =>
               /\ Stored(tables, a.alias, a.type) # {}
                    => last'.err = "KeyError" /\ tables' = tables /\ seq' = seq
               /\ (AliasEntry_post_init(a) /\ Stored(tables, a.alias, a.type) = {})
                    => /\ last'.err = ""
                       /\ \E r \in Stored(tables', a.alias, a.type) :
                             r.id = last'.ret /\ r.full_name = a.full_name
                       /\ tables["aliases"] \subseteq tables'["aliases"]]_vars

\* a code stored under one type was accepted under the other type as well
C16_Witness ==
    /\ last.op = "add_alias" /\ last.err = "" /\ last.ret = 2
    /\ \E r1, r2 \in tables["aliases"] :
          r1.alias = r2.alias /\ r1.type # r2.type /\ r1.id = 1 /\ r2.id = 2

---------------------------------------------------------------------------
(* Aliases at entry creation and renaming *)

\* utils.validate_category: not blank and at most 50 characters once stripped
validate_category(category) ==
    /\ category # << >> /\ Strip(category) # << >>
    /\ Len(Strip(category)) >= 1 /\ Len(Strip(category)) <= 50

\* a lookup that takes the alias of either type
get_alias_anytype(db, alias, table) ==
    {[id |-> r.id, alias |-> r.alias, full_name |-> r.full_name, type |-> r.type] :
        r \in AliasRows_anytype(db, alias, table)}

\* BudgetManager.get_alias: the entries the lookup may return, none when the
\* set is empty
get_alias(db, alias, table) ==
    {[id |-> r.id, alias |-> r.alias, full_name |-> r.full_name, type |-> r.type] :
        r \in AliasRows(db, alias, table)}

\* the source or category and the alias code that the entry dialogs derive from
\* the typed text
Expanded(db, typed, table) ==
    IF get_alias(db, typed, table) # {}
       THEN LET alias == CHOOSE a \in get_alias(db, typed, table) : TRUE
            IN  [name |-> alias.full_name, alias |-> alias.alias]
       ELSE [name |-> typed, alias |-> None]

\* BudgetTrackerCLI.add_income_entry: the typed source is looked up among the
\* income aliases, then the entry is built and added
add_income_entry(source_input, amount_input, date_input, description_input) ==
    LET x == Expanded(DB, source_input, "income")
        income == [date |-> date_input, source |-> x.name, amount |-> amount_input,
                   description |-> description_input, alias |-> x.alias]
    IN  /\ validate_category(source_input)
        /\ Room
        /\ IF ~IncomeEntry_post_init(income)
              THEN /\ last' = [op |-> "add_income_entry", err |-> "ValueError"]
                   /\ UNCHANGED <<tables, seq>>
              ELSE /\ last' = [op |-> "add_income_entry", err |-> "",
                               typed |-> source_input, ret |-> NextRowid(DB, "income")]
                   /\ Commit(Insert(DB, "income",
                        [date |-> income.date, source |-> income.source,
                         amount |-> income.amount, description |-> income.description,
                         alias |-> income.alias, created_at |-> clock]))
        /\ UNCHANGED clock

\* BudgetTrackerCLI.add_expense_entry
add_expense_entry(category_input, amount_input, date_input, description_input) ==
    LET x == Expanded(DB, category_input, "expenses")
        expense == [date |-> date_input, category |-> x.name, amount |-> amount_input,
                    description |-> description_input, alias |-> x.alias]
    IN  /\ validate_category(category_input)
        /\ Room
        /\ IF ~ExpenseEntry_post_init(expense)
              THEN /\ last' = [op |-> "add_expense_entry", err |-> "ValueError"]
                   /\ UNCHANGED <<tables, seq>>
              ELSE /\ last' = [op |-> "add_expense_entry", err |-> "",
                               typed |-> category_input,
                               ret |-> NextRowid(DB, "expenses")]
                   /\ Commit(Insert(DB, "expenses",
                        [date |-> expense.date, category |-> expense.category,
                         amount |-> expense.amount, description |-> expense.description,
                         alias |-> expense.alias, created_at |-> clock]))
        /\ UNCHANGED clock

\* a rename that deletes the row and inserts the new alias as a new row
replace_alias_reinsert(db, old_alias, table, new_alias, new_full_name) ==
    LET old == AliasRows(db, old_alias, table)
        new == [alias |-> new_alias, full_name |-> new_full_name, type |-> table]
    IN  IF old = {} THEN [db |-> db, err |-> "KeyError"]
        ELSE IF ~AliasEntry_post_init(new) THEN [db |-> db, err |-> "ValueError"]
        ELSE IF AliasRows(db, new_alias, table) \ old # {}
           THEN [db |-> db, err |-> "KeyError"]
        ELSE [db |-> Insert([db EXCEPT !.tables["aliases"] = @ \ old], "aliases",
                            [alias |-> new_alias, full_name |-> new_full_name,
                             type |-> table, created_at |-> clock]),
              err |-> ""]

\* BudgetManager.replace_alias(old alias, type, new alias, new full name): the
\* row of the old alias gets the new alias and full name and keeps its id and
\* type; a missing old alias and a new pair that another row holds are errors
replace_alias(db, old_alias, table, new_alias, new_full_name) ==
    LET old == AliasRows(db, old_alias, table)
        new == [alias |-> new_alias, full_name |-> new_full_name, type |-> table]
    IN  IF old = {} THEN [db |-> db, err |-> "KeyError"]
        ELSE IF ~AliasEntry_post_init(new) THEN [db |-> db, err |-> "ValueError"]
        ELSE IF AliasRows(db, new_alias, table) \ old # {}
           THEN [db |-> db, err |-> "KeyError"]
        ELSE [db |-> [db EXCEPT !.tables["aliases"] =
                        {IF r \in old
                            THEN [r EXCEPT !.alias = new_alias,
                                           !.full_name = new_full_name]
                            ELSE r : r \in @}],
              err |-> ""]

\* BudgetTrackerCLI.rename_alias_entry: one rename, or for "all" the rename
\* under income and then under expenses; an error ends the dialog and what was
\* renamed before it stays renamed
rename_alias_entry(old_alias_name, table, new_alias_name, new_full_name) ==
    LET first == replace_alias(DB, old_alias_name,
                               IF table = "all" THEN "income" ELSE table,
                               new_alias_name, new_full_name)
        second == IF table = "all" /\ first.err = ""
                     THEN replace_alias(first.db, old_alias_name, "expenses",
                                        new_alias_name, new_full_name)
                     ELSE first
    IN  /\ last' = IF second.err = ""
                      THEN [op |-> "rename_alias_entry", err |-> "",
                            old |-> old_alias_name, table |-> table,
                            new_alias |-> new_alias_name,
                            new_full_name |-> new_full_name]
                      ELSE [op |-> "rename_alias_entry", err |-> second.err]
        /\ Commit(second.db)
        /\ UNCHANGED clock

---------------------------------------------------------------------------
(* Aliases in use: the inputs, the specification and the properties *)

Txt_b == <<98>>
Txt_A == <<65>>

TypedInputs == {Txt_a, Txt_A}
TypedAmounts == {5, -1}
RenameOld == {Txt_a, Txt_b}
RenameTables == {"income", "expenses", "all"}
RenameNew == {Txt_a, Txt_b}

NextAlias ==
    \/ \E a \in AliasInputs : add_alias(a)
    \/ \E t \in TypedInputs, m \in TypedAmounts :
            add_income_entry(t, m, EntryDate, Empty)
    \/ \E t \in TypedInputs, m \in TypedAmounts :
            add_expense_entry(t, m, EntryDate, Empty)
    \/ \E o \in RenameOld, t \in RenameTables, n \in RenameNew :
            rename_alias_entry(o, t, n, Txt_food)

SpecAlias == Init /\ [][NextAlias]_vars

\* the row the call has just stored under the id it returned
StoredEntry(t) == CHOOSE r \in tables'[t] : r.id = last'.ret

\* C17: when the text typed for a new income or expense entry is exactly the
\* code of an alias of that entry's type, the stored entry has that alias's
\* full_name as source / category and the code as alias; when no alias of that
\* type has the code, also if an alias of the other type has it, the stored
\* source / category is the typed text and the stored alias is absent.
C17_AliasExpansion ==
    [][/\ (last'.op = "add_income_entry" /\ last'.err = "")
          => /\ last'.ret \in Ids(DBNext, "income") \ Ids(DB, "income")
             /\ \A a \in Stored(tables, last'.typed, "income") :
                   /\ StoredEntry("income").source = a.full_name
                   /\ StoredEntry("income").alias = a.alias
             /\ Stored(tables, last'.typed, "income") = {}
                   => /\ StoredEntry("income").source = last'.typed
                      /\ StoredEntry("income").alias = None
       /\ (last'.op = "add_expense_entry" /\ last'.err = "")
          => /\ last'.ret \in Ids(DBNext, "expenses") \ Ids(DB, "expenses")
             /\ \A a \in Stored(tables, last'.typed, "expenses") :
                   /\ StoredEntry("expenses").category = a.full_name
                   /\ StoredEntry("expenses").alias = a.alias
             /\ Stored(tables, last'.typed, "expenses") = {}
                   => /\ StoredEntry("expenses").category = last'.typed
                      /\ StoredEntry("expenses").alias = None]_vars

\* the typed text is the code of an expenses alias only, and the income entry
\* was stored under the typed text with no alias
C17_Witness ==
    /\ last.op = "add_income_entry" /\ last.err = "" /\ last.typed = Txt_a
    /\ Stored(tables, Txt_a, "expenses") # {} /\ Stored(tables, Txt_a, "income") = {}
    /\ \E r \in tables["income"] : r.id = last.ret /\ r.source = Txt_a /\ r.alias = None

\* C18: a rename keeps the alias row's id and type and changes only its alias
\* and full_name, and it leaves every income and expense entry unchanged.
C18_RenameKeepsIdAndEntries ==
    [][last'.op = "rename_alias_entry"
        => /\ tables'["income"] = tables["income"]
           /\ tables'["expenses"] = tables["expenses"]
           /\ last'.err = ""
               => LET types == IF last'.table = "all" THEN {"income", "expenses"}
                                                     ELSE {last'.table}
                  IN  /\ \A t \in types : Stored(tables, last'.old, t) # {}
                      /\ tables'["aliases"] =
                            {IF r.alias = last'.old /\ r.type \in types
                                THEN [r EXCEPT !.alias = last'.new_alias,
                                               !.full_name = last'.new_full_name]
                                ELSE r : r \in tables["aliases"]}]_vars

\* an alias was renamed while an income entry holds its old code and old full
\* name
C18_Witness ==
    /\ last.op = "rename_alias_entry" /\ last.err = ""
    /\ last.old = Txt_a /\ last.new_alias = Txt_b
    /\ \E r \in tables["aliases"] : r.alias = Txt_b /\ r.full_name = Txt_food
    /\ \E e \in tables["income"] : e.alias = Txt_a /\ e.source = Txt_job

---------------------------------------------------------------------------
(* BudgetManager.search_entries *)

\* str.lower() on the code points in use: A-Z and the accented capitals of
\* Latin-1 go to their small letters
PyLowerChar(c) ==
    IF (c >= 65 /\ c <= 90) \/ (c >= 192 /\ c <= 222 /\ c # 215) THEN c + 32 ELSE c
PyLower(s) == [i \in DOMAIN s |-> PyLowerChar(s[i])]

\* SQLite's LOWER(): only A-Z change
SqlLowerChar(c) == IF c >= 65 /\ c <= 90 THEN c + 32 ELSE c
SqlLower(s) == [i \in DOMAIN s |-> SqlLowerChar(s[i])]

\* SQLite's LIKE: % stands for any run of characters, _ for any one character,
\* and A-Z match a-z
RECURSIVE Like(_, _)
Like(text, pattern) ==
    IF pattern = << >> THEN text = << >>
    ELSE IF Head(pattern) = 37
       THEN Like(text, Tail(pattern)) \/ (text # << >> /\ Like(Tail(text), pattern))
    ELSE IF text = << >> THEN FALSE
    ELSE IF Head(pattern) = 95 THEN Like(Tail(text), Tail(pattern))
    ELSE /\ SqlLowerChar(Head(text)) = SqlLowerChar(Head(pattern))
         /\ Like(Tail(text), Tail(pattern))

\* LOWER(column) LIKE ? with the parameter f"%{query_lower}%"; a NULL column
\* matches nothing
ColumnMatches(column, query) ==
    /\ column # None
    /\ Like(SqlLower(column), <<37>> \o PyLower(query) \o <<37>>)

\* the WHERE clauses of the two searches
IncomeMatches(r, query) ==
    ColumnMatches(r.source, query) \/ ColumnMatches(r.description, query)
ExpenseMatches(r, query) ==
    ColumnMatches(r.category, query) \/ ColumnMatches(r.description, query)

\* BudgetManager.search_entries(query): the income and expense entries found
search_matching(db, query) ==
    [income |-> {IncomeEntryOfRow(r) :
                    r \in {x \in db.tables["income"] : IncomeMatches(x, query)}},
     expenses |-> {ExpenseEntryOfRow(r) :
                    r \in {x \in db.tables["expenses"] : ExpenseMatches(x, query)}}]

\* search_entries(query, exclude=True): the same predicate, negated
search_excluding(db, query) ==
    [income |-> {IncomeEntryOfRow(r) :
                    r \in {x \in db.tables["income"] : ~IncomeMatches(x, query)}},
     expenses |-> {ExpenseEntryOfRow(r) :
                    r \in {x \in db.tables["expenses"] : ~ExpenseMatches(x, query)}}]

\* BudgetTrackerCLI.search_entries once the term is read and a leading "!" is
\* taken off: an empty term is refused, else the store is searched
search_entries(query, exclude) ==
    /\ last' = IF Strip(query) = << >>
                  THEN [op |-> "search_entries", err |-> "empty"]
                  ELSE [op |-> "search_entries", err |-> "", query |-> query,
                        exclude |-> exclude,
                        ret |-> IF exclude THEN search_excluding(DB, query)
                                           ELSE search_matching(DB, query)]
    /\ UNCHANGED <<tables, seq, clock>>

---------------------------------------------------------------------------
(* Search: the inputs, the specification and the properties *)

Txt_Job == <<74, 111, 98>>
Txt_JOB == <<74, 79, 66>>
Txt_percent == <<37>>
Txt_Eacute == <<201>>

SearchIncomeInputs ==
    [date : {EntryDate}, source : {Txt_Job, Txt_Eacute}, amount : {5},
     description : {Empty, Txt_note}, alias : {None}]

SearchExpenseInputs ==
    [date : {EntryDate}, category : {Txt_job, Txt_a}, amount : {5},
     description : {Empty}, alias : {None}]

SearchQueries == {Txt_job, Txt_JOB, Txt_note, Txt_percent, Txt_Eacute, Blank}

NextSearch ==
    \/ \E e \in SearchIncomeInputs : add_income(e)
    \/ \E e \in SearchExpenseInputs : add_expense(e)
    \/ \E q \in SearchQueries, x \in BOOLEAN : search_entries(q, x)

SpecSearch == Init /\ [][NextSearch]_vars

\* the text contains the term, letter case aside
ContainsNoCase(text, term) ==
    \E i \in 1 .. (Len(text) - Len(term) + 1) :
        PyLower(SubSeq(text, i, i + Len(term) - 1)) = PyLower(term)

\* C19: search(query, exclude = false) returns exactly the income rows whose
\* source or description, and the expense rows whose category or description,
\* contain the query as a case-insensitive substring; search(query, exclude =
\* true) returns exactly the rows that do not; so the two results are disjoint
\* and together cover every income and expense row.
C19_SearchSubstring ==
    (last.op = "search_entries" /\ last.err = "")
    => LET q == last.query
           inc == {r \in tables["income"] :
                      ContainsNoCase(r.source, q) \/ ContainsNoCase(r.description, q)}
           exp == {r \in tables["expenses"] :
                      ContainsNoCase(r.category, q) \/ ContainsNoCase(r.description, q)}
       IN  /\ ~last.exclude
                => /\ last.ret.income = {IncomeEntryOfRow(r) : r \in inc}
                   /\ last.ret.expenses = {ExpenseEntryOfRow(r) : r \in exp}
           /\ last.exclude
                => /\ last.ret.income
                        = {IncomeEntryOfRow(r) : r \in tables["income"] \ inc}
                   /\ last.ret.expenses
                        = {ExpenseEntryOfRow(r) : r \in tables["expenses"] \ exp}
           /\ search_matching(DB, q).income \cap search_excluding(DB, q).income = {}
           /\ search_matching(DB, q).expenses \cap search_excluding(DB, q).expenses = {}
           /\ search_matching(DB, q).income \cup search_excluding(DB, q).income
                = {IncomeEntryOfRow(r) : r \in tables["income"]}
           /\ search_matching(DB, q).expenses \cup search_excluding(DB, q).expenses
                = {ExpenseEntryOfRow(r) : r \in tables["expenses"]}

---------------------------------------------------------------------------
(* GoalTracker.update_goal *)

\* the id of a goal object, Optional[int]: << >> for None, <<n>> for n
NoId == << >>

\* not goal.id
MissingId(id) == id = NoId \/ id = <<0>>

\* GoalTracker.update_goal of a goal object built from these fields
update_goal(goal) ==
    /\ IF ~SavingsGoal_post_init(goal)
          THEN /\ last' = [op |-> "update_goal", err |-> "ValueError"]
               /\ UNCHANGED <<tables, seq>>
          ELSE IF MissingId(goal.id)
          THEN /\ last' = [op |-> "update_goal",
                           err |-> "Goal ID is required for update"]
               /\ UNCHANGED <<tables, seq>>
          ELSE /\ last' = [op |-> "update_goal", err |-> "", id |-> goal.id[1],
                           ret |-> goal.id[1] \in Ids(DB, GoalT)]
               /\ Commit(UpdateGoalRow(DB, [goal EXCEPT !.id = goal.id[1]]))
    /\ UNCHANGED clock

---------------------------------------------------------------------------
(* Editing goals: the inputs, the specification and the properties *)

EditGoalInputs ==
    [name : {Txt_car}, target_amount : {0, 2}, current_amount : {0},
     target_date : {DateStr(2026, 6, 30)}, category : {Txt_car}, description : {Empty},
     is_completed : {FALSE}, created_date : {DateStr(2025, 1, 15)}]

UpdateIds == {NoId} \cup {<<n>> : n \in 0 .. (MaxId + 1)}

UpdateInputs ==
    [id : UpdateIds, name : {Txt_car, Blank}, target_amount : {3}, current_amount : {1},
     target_date : {DateStr(2026, 6, 30)}, category : {Txt_car},
     description : {Txt_note}, is_completed : BOOLEAN,
     created_date : {DateStr(2025, 1, 15)}]

NextGoalEdit ==
    \/ \E g \in EditGoalInputs : add_goal(g)
    \/ \E g \in UpdateInputs : update_goal(g)
    \/ \E id \in GoalIds : delete_goal(id)

SpecGoalEdit == Init /\ [][NextGoalEdit]_vars

\* C20: update_goal of a goal object without an id (None, or 0, which the store
\* never assigns) fails with the missing-identifier error; update_goal and
\* delete_goal with an id that is not in the store report the failure to the
\* caller by returning False; in all these cases the savings_goals table is
\* unchanged.
C20_GoalEditNotFound ==
    [][/\ last'.op = "update_goal" => \A g \in UpdateInputs :
            (SavingsGoal_post_init(g) /\ update_goal(g))
            => /\ g.id \in {NoId, <<0>>}
                    => /\ last'.err = "Goal ID is required for update"
                       /\ tables' = tables /\ seq' = seq
               /\ (g.id \notin {NoId, <<0>>} /\ g.id[1] \notin Ids(DB, GoalT))
                    => /\ last'.err = "" /\ last'.ret = FALSE
                       /\ tables' = tables /\ seq' = seq
       /\ last'.op = "delete_goal" => \A id \in GoalIds :
            (id \notin Ids(DB, GoalT) /\ delete_goal(id))
            => /\ last'.err = "" /\ last'.ret = FALSE
               /\ tables' = tables /\ seq' = seq]_vars

\* an update naming an id that is not in the store returned False while
\* another goal is stored
C20_Witness ==
    /\ last.op = "update_goal" /\ last.err = "" /\ last.ret = FALSE
    /\ tables[GoalT] # {} /\ last.id \notin Ids(DB, GoalT)

---------------------------------------------------------------------------
(* SavingsGoal views that read the calendar *)

\* date.toordinal(): the days from 0001-01-01, that day being 1
ToOrdinal(y, m, d) ==
    LET RECURSIVE DaysBeforeMonth(_)
        DaysBeforeMonth(k) == IF k = 1 THEN 0
                              ELSE DaysBeforeMonth(k - 1) + DaysInMonth(y, k - 1)
        py == y - 1
    IN  py * 365 + py \div 4 - py \div 100 + py \div 400 + DaysBeforeMonth(m) + d

\* datetime.strptime(s, '%Y-%m-%d').date() of a text of the fixed layout, as
\* its ordinal
StrpDate(s) ==
    ToOrdinal(ToInt(SubSeq(s, 1, 4)), ToInt(SubSeq(s, 6, 7)), ToInt(SubSeq(s, 9, 10)))

\* SavingsGoal.days_remaining on the day `today`
days_remaining(goal, today) ==
    IF ~validate_date(goal.target_date) THEN 0
    ELSE Max({StrpDate(goal.target_date) - StrpDate(today), 0})

\* an overdue test that forgets the completion flag
is_overdue_dateonly(goal, today) ==
    IF ~validate_date(goal.target_date) THEN FALSE
    ELSE StrpDate(today) > StrpDate(goal.target_date)

\* SavingsGoal.is_overdue on the day `today`
is_overdue(goal, today) ==
    IF ~validate_date(goal.target_date) THEN FALSE
    ELSE StrpDate(today) > StrpDate(goal.target_date) /\ ~goal.is_completed

\* the SavingsGoal object the listing calls build from a row
SavingsGoalOfRow(r) ==
    [id |-> r.id, name |-> r.name, target_amount |-> r.target_amount,
     current_amount |-> r.current_amount, target_date |-> r.target_date,
     category |-> r.category,
     description |-> IF r.description \in {None, Empty} THEN Empty ELSE r.description,
     is_completed |-> r.is_completed, created_date |-> r.created_date]

\* ORDER BY target_date ASC, created_at DESC: row a may come right before row b
GoalMayPrecede(a, b) ==
    \/ StrLT(a.target_date, b.target_date)
    \/ a.target_date = b.target_date /\ a.created_at >= b.created_at

\* GoalTracker.get_all_goals: the lists the call may return
get_all_goals(db) ==
    LET rows == db.tables[GoalT]
        n == Cardinality(rows)
    IN  {[i \in 1 .. n |-> SavingsGoalOfRow(p[i])] :
            p \in {q \in [1 .. n -> rows] :
                    /\ \A i, j \in 1 .. n : i # j => q[i] # q[j]
                    /\ \A i \in 1 .. n - 1 : GoalMayPrecede(q[i], q[i + 1])}}

\* a filter that keeps the completed goals too
get_active_goals_all(db) == get_all_goals(db)

\* GoalTracker.get_active_goals
get_active_goals(db) ==
    LET Active(g) == ~g.is_completed
    IN  {SelectSeq(L, Active) : L \in get_all_goals(db)}

Min(S) == CHOOSE x \in S : \A y \in S : x <= y

\* sorted(L, key=lambda g: g.days_remaining): stable, so goals with equal keys
\* keep their order
RECURSIVE SortedByDays(_, _)
SortedByDays(L, today) ==
    IF L = << >> THEN << >>
    ELSE LET least == Min({days_remaining(L[i], today) : i \in DOMAIN L})
             k == Min({i \in DOMAIN L : days_remaining(L[i], today) = least})
         IN  <<L[k]>> \o SortedByDays(SubSeq(L, 1, k - 1) \o SubSeq(L, k + 1, Len(L)), today)

\* GoalTracker.get_goals_due_soon(days) on the day `today`: the lists it may return
goals_due_soon(db, days, today) ==
    LET Due(g) == days_remaining(g, today) <= days
    IN  {SortedByDays(SelectSeq(L, Due), today) : L \in get_active_goals(db)}

\* the call of get_goals_due_soon
get_goals_due_soon(days, today) ==
    /\ \E L \in goals_due_soon(DB, days, today) :
          last' = [op |-> "get_goals_due_soon", days |-> days, today |-> today, ret |-> L]
    /\ UNCHANGED <<tables, seq, clock>>

\* the call of get_overdue_goals on the day `today`
get_overdue_goals(today) ==
    /\ \E L \in get_all_goals(DB) :
          LET Overdue(g) == is_overdue(g, today)
          IN  last' = [op |-> "get_overdue_goals", today |-> today,
                       ret |-> SelectSeq(L, Overdue)]
    /\ UNCHANGED <<tables, seq, clock>>

---------------------------------------------------------------------------
(* Goals and the calendar: the inputs, the specification and the properties *)

DueDates == {DateStr(2025, 12, 30), DateStr(2026, 1, 1), DateStr(2026, 2, 1)}
Todays == {DateStr(2026, 1, 1), DateStr(2026, 1, 31)}
FarDate == DateStr(2026, 12, 31)
DueDays == {0, 1, 31}
DueProgress == {1, 2}

DueGoalInputs ==
    [name : {Txt_car}, target_amount : {2}, current_amount : {0},
     target_date : DueDates, category : {Txt_car}, description : {Empty},
     is_completed : BOOLEAN, created_date : {DateStr(2025, 1, 15)}]

NextDue ==
    \/ \E g \in DueGoalInputs : add_goal(g)
    \/ \E id \in GoalIds, a \in DueProgress : add_progress(id, a)
    \/ \E d \in DueDays, t \in Todays : get_goals_due_soon(d, t)
    \/ \E t \in Todays : get_overdue_goals(t)

SpecDue == Init /\ [][NextDue]_vars

\* the stored goal's target date lies before the day
Passed(r, today) == DayNumber(r.target_date) < DayNumber(today)

\* C21: is_overdue is true exactly when today is after the target date and the
\* goal is not completed, so a completed goal is never overdue and never listed
\* as overdue; add_progress with a positive amount on an overdue goal is
\* accepted and stores what it stores on the same goal with a target date that
\* has not passed: the sum, or the target with is_completed set once the sum
\* reaches it.
C21_OverdueIsViewOnly ==
    /\ \A r \in tables[GoalT], t \in Todays :
          LET g == SavingsGoalOfRow(r)
          IN  /\ is_overdue(g, t) <=> (Passed(r, t) /\ ~r.is_completed)
              /\ r.is_completed => ~is_overdue(g, t)
    /\ last.op = "get_overdue_goals"
          => \A i \in DOMAIN last.ret : ~last.ret[i].is_completed
    /\ \A r \in tables[GoalT], a \in DueProgress, t \in Todays :
          is_overdue(SavingsGoalOfRow(r), t) =>
             LET twin == UpdateGoalRow(DB, [SavingsGoalOfRow(r) EXCEPT !.target_date = FarDate])
                 here == add_progress_call(DB, r.id, a)
                 there == add_progress_call(twin, r.id, a)
                 new == GoalRow(here.db.tables, r.id)
                 new2 == GoalRow(there.db.tables, r.id)
             IN  /\ ~is_overdue(SavingsGoalOfRow(GoalRow(twin.tables, r.id)), t)
                 /\ here.err = "" /\ there.err = ""
                 /\ new = [new2 EXCEPT !.target_date = r.target_date]
                 /\ new.is_completed <=> (r.current_amount + a >= r.target_amount)
                 /\ new.current_amount = IF r.current_amount + a >= r.target_amount
                                            THEN r.target_amount
                                            ELSE r.current_amount + a

\* add_progress was accepted on a goal whose target date has passed on every
\* day considered, and the goal is still short of its target
C21_Witness ==
    /\ last.op = "add_progress" /\ last.err = ""
    /\ \E r \in tables[GoalT] :
          /\ r.id = last.id /\ ~r.is_completed /\ r.current_amount = 1
          /\ \A t \in Todays : Passed(r, t) /\ is_overdue(SavingsGoalOfRow(r), t)

\* max(target_date - today, 0) in days
DaysLeft(r, today) ==
    IF DayNumber(r.target_date) <= DayNumber(today) THEN 0
    ELSE StrpDate(r.target_date) - StrpDate(today)

\* C22: get_goals_due_soon(days) returns exactly the goals that are not
\* completed and have days_remaining <= days, each once, in ascending order of
\* days_remaining = max(target_date - today, 0); no completed goal is returned,
\* and an active goal whose target date has passed is returned for every
\* days >= 0.
C22_DueSoon ==
    last.op = "get_goals_due_soon" =>
        LET L == last.ret
            d == last.days
            t == last.today
        IN  /\ \A i, j \in DOMAIN L : i # j => L[i].id # L[j].id
            /\ {L[i] : i \in DOMAIN L}
                 = {SavingsGoalOfRow(r) : r \in {x \in tables[GoalT] :
                        ~x.is_completed /\ DaysLeft(x, t) <= d}}
            /\ \A i, j \in DOMAIN L : i < j => DaysLeft(L[i], t) <= DaysLeft(L[j], t)
            /\ \A i \in DOMAIN L : ~L[i].is_completed
            /\ \A r \in tables[GoalT] :
                  (~r.is_completed /\ Passed(r, t) /\ d >= 0)
                  => \E i \in DOMAIN L : L[i].id = r.id

\* the call returned a goal whose date has passed ahead of a goal due in one
\* day
C22_Witness ==
    /\ last.op = "get_goals_due_soon" /\ last.days = 1 /\ Len(last.ret) = 2
    /\ Passed(last.ret[1], last.today)
    /\ DaysLeft(last.ret[2], last.today) = 1

---------------------------------------------------------------------------
(* utils: amounts typed as text *)

\* the characters the amount functions delete besides white space: the signs
\* for rupee, dollar, euro, pound and yen, and the comma
CurrencySigns == {8377, 36, 8364, 163, 165}
Comma == 44
Dot == 46

\* re.sub(r'[₹$€£¥\s,]', '', amount.strip())
Cleaned(s) ==
    LET Kept(c) == c \notin CurrencySigns /\ ~IsSpace(c) /\ c # Comma
    IN  SelectSeq(Strip(s), Kept)

Txt_nan == <<110, 97, 110>>
Txt_inf == <<105, 110, 102>>
Txt_infinity == <<105, 110, 102, 105, 110, 105, 116, 121>>

RECURSIVE Pow10(_)
Pow10(n) == IF n = 0 THEN 1 ELSE 10 * Pow10(n - 1)

\* what float() gives: a finite value num/den, an infinity (num its sign), the
\* not-a-number value, or one of the errors it raises
Finite(num, den) == [kind |-> "num", num |-> num, den |-> den]
Infinite(sign) == [kind |-> "inf", num |-> sign, den |-> 0]
NaN == [kind |-> "nan", num |-> 0, den |-> 0]
Raises(e) == [kind |-> e, num |-> 0, den |-> 0]

\* float(s) of a text written with ASCII digits, a sign, a point and letters:
\* white space around it is dropped, then a sign, then either the word nan,
\* inf or infinity in any case, or digits with at most one point and at least
\* one digit (exponents, digit-group underscores and the other decimal
\* digits of Unicode are written with characters that the inputs here lack)
FloatOfText(s) ==
    LET t == Strip(s)
        signed == t # << >> /\ Head(t) \in {43, 45}
        sign == IF t # << >> /\ Head(t) = 45 THEN -1 ELSE 1
        body == IF signed THEN Tail(t) ELSE t
        dots == {i \in DOMAIN body : body[i] = Dot}
        AllDigits(x) == \A i \in DOMAIN x : IsDigit(x[i])
    IN  IF SqlLower(body) = Txt_nan THEN NaN
        ELSE IF SqlLower(body) \in {Txt_inf, Txt_infinity} THEN Infinite(sign)
        ELSE IF dots = {}
           THEN IF body # << >> /\ AllDigits(body)
                   THEN Finite(sign * ToInt(body), 1)
                   ELSE Raises("ValueError")
        ELSE IF Cardinality(dots) = 1
           THEN LET k == CHOOSE i \in dots : TRUE
                    whole == SubSeq(body, 1, k - 1)
                    frac == SubSeq(body, k + 1, Len(body))
                IN  IF whole \o frac # << >> /\ AllDigits(whole) /\ AllDigits(frac)
                       THEN Finite(sign * ToInt(whole \o frac), Pow10(Len(frac)))
                       ELSE Raises("ValueError")
        ELSE Raises("ValueError")

\* the decimal digits of the largest double, 1.797...e308: float() converts
\* no int with more digits
FloatMaxDigits == 309

\* float(n) of an int given by its sign and decimal digits: an int too large
\* for a double raises OverflowError
FloatOfInt(x) ==
    IF Len(x.digits) > FloatMaxDigits THEN Raises("OverflowError")
    ELSE Finite((IF x.neg THEN -1 ELSE 1) * ToInt(x.digits), 1)

\* float(amount) of a value that is not a str
FloatOfValue(x) ==
    IF x.type = "int" THEN FloatOfInt(x)
    ELSE Raises("TypeError")

\* value >= 0 on a float
NonNegative(v) ==
    IF v.kind = "num" THEN v.num >= 0
    ELSE IF v.kind = "inf" THEN v.num > 0
    ELSE FALSE

\* utils.validate_amount: the value returned, or the exception that escapes
validate_amount(amount) ==
    LET value == IF amount.type = "str" THEN FloatOfText(Cleaned(amount.text))
                 ELSE FloatOfValue(amount)
    IN  IF value.kind \in {"ValueError", "TypeError"} THEN [raised |-> "", ret |-> FALSE]
        ELSE IF value.kind = "OverflowError" THEN [raised |-> "OverflowError", ret |-> FALSE]
        ELSE [raised |-> "", ret |-> NonNegative(value)]

\* utils.parse_amount of a str: the value returned, or the error raised with
\* the input it quotes
parse_amount(amount_input) ==
    IF amount_input = << >>
       THEN [err |-> "Amount cannot be empty", input |-> Empty, value |-> Raises("ValueError")]
    ELSE LET value == FloatOfText(Cleaned(amount_input))
         IN  IF value.kind = "ValueError"
                THEN [err |-> "Invalid amount format", input |-> amount_input, value |-> value]
                ELSE [err |-> "", input |-> Empty, value |-> value]

\* the call of validate_amount on the input at hand
call_validate_amount ==
    /\ last.op = "amount"
    /\ last' = [op |-> "validate_amount", arg |-> last.arg,
                out |-> validate_amount(last.arg)]
    /\ UNCHANGED <<tables, seq, clock>>

\* the call of parse_amount on the text at hand
call_parse_amount ==
    /\ last.op = "amount" /\ last.arg.type = "str"
    /\ last' = [op |-> "parse_amount", arg |-> last.arg.text,
                out |-> parse_amount(last.arg.text)]
    /\ UNCHANGED <<tables, seq, clock>>

---------------------------------------------------------------------------
(* Typed amounts: the inputs, the specification and the properties *)

\* the characters $ , space 1 0 . - n a
AmountChars == {36, 44, 32, 49, 48, 46, 45, 110, 97}

AmountTexts == UNION {[1 .. n -> AmountChars] : n \in 0 .. AmountLen}

\* the digits of 10^309, an int no double can hold
HugeDigits == [i \in 1 .. (FloatMaxDigits + 1) |-> IF i = 1 THEN Digit(1) ELSE Digit(0)]

IntDigits == {<<Digit(0)>>, <<Digit(1)>>, <<Digit(1), Digit(0)>>, HugeDigits}

\* what a caller may hand to validate_amount: a str, an int, None, a list
AmountInputs ==
    {[type |-> "str", text |-> t] : t \in AmountTexts}
    \cup {[type |-> "int", neg |-> b, digits |-> d] : b \in BOOLEAN, d \in IntDigits}
    \cup {[type |-> "NoneType"], [type |-> "list"]}

InitAmount ==
    /\ tables = [t \in TableNames |-> {}]
    /\ seq = NoSeq
    /\ clock = 0
    /\ last \in {[op |-> "amount", arg |-> x] : x \in AmountInputs}

NextAmount ==
    \/ call_validate_amount
    \/ call_parse_amount

SpecAmount == InitAmount /\ [][NextAmount]_vars

\* the text without currency signs, commas and white space
RECURSIVE Stripped(_)
Stripped(s) ==
    IF s = << >> THEN << >>
    ELSE IF Head(s) \in CurrencySigns \cup {Comma} \/ IsSpace(Head(s)) THEN Stripped(Tail(s))
    ELSE <<Head(s)>> \o Stripped(Tail(s))

\* the text without a leading sign
Unsigned(s) == IF s # << >> /\ Head(s) \in {43, 45} THEN Tail(s) ELSE s

\* the text writes a decimal number: an optional sign, then digits with at
\* most one decimal point among them
Numeral(s) ==
    LET u == Unsigned(s)
    IN  /\ \A i \in DOMAIN u : IsDigit(u[i]) \/ u[i] = Dot
        /\ \E i \in DOMAIN u : IsDigit(u[i])
        /\ \A i, j \in DOMAIN u : (u[i] = Dot /\ u[j] = Dot) => i = j

\* the number a numeral writes, as a fraction: read digit by digit
RECURSIVE Scan(_, _, _, _)
Scan(u, num, den, past) ==
    IF u = << >> THEN [num |-> num, den |-> den]
    ELSE IF Head(u) = Dot THEN Scan(Tail(u), num, den, TRUE)
    ELSE Scan(Tail(u), 10 * num + (Head(u) - Digit(0)), IF past THEN 10 * den ELSE den, past)

NumeralValue(s) ==
    LET v == Scan(Unsigned(s), 0, 1, FALSE)
    IN  IF s # << >> /\ Head(s) = 45 THEN [v EXCEPT !.num = -v.num] ELSE v

\* the input converts to a number that is not negative
AmountOK(x) ==
    IF x.type = "str"
       THEN Numeral(Stripped(x.text)) /\ NumeralValue(Stripped(x.text)).num >= 0
    ELSE IF x.type = "int"
       THEN ~x.neg \/ \A i \in DOMAIN x.digits : x.digits[i] = Digit(0)
    ELSE FALSE

\* C24: validate_amount never raises; for a string, a number or a value of any
\* other type it returns true exactly when the input, with currency signs,
\* commas and white space taken out of a string, converts to a number >= 0,
\* and false otherwise.
C24_ValidateAmountTotal ==
    last.op = "validate_amount"
        => /\ last.out.raised = ""
           /\ last.out.ret <=> AmountOK(last.arg)

\* C25: parse_amount returns the value of every amount text that writes a
\* number once currency signs, commas and white space are taken out; it fails
\* with the empty-amount error on empty input and with the invalid-format
\* error quoting the input when what is left does not write a number.
C25_ParseAmount ==
    last.op = "parse_amount" =>
        LET t == last.arg
            c == Stripped(t)
            out == last.out
        IN  /\ t = << >> => out.err = "Amount cannot be empty"
            /\ (t # << >> /\ Numeral(c))
                  => /\ out.err = "" /\ out.value.kind = "num"
                     /\ out.value.num * NumeralValue(c).den
                          = NumeralValue(c).num * out.value.den
            /\ (t # << >> /\ ~Numeral(c))
                  => /\ out.err = "Invalid amount format" /\ out.input = t

---------------------------------------------------------------------------
(* Typed dates: the inputs, the specification and the properties *)

\* the call of validate_date on the text at hand
call_validate_date ==
    /\ last.op = "date"
    /\ last' = [op |-> "validate_date", arg |-> last.arg, ret |-> validate_date(last.arg)]
    /\ UNCHANGED <<tables, seq, clock>>

\* the text that writes these decimal digits
Digits(ds) == [i \in DOMAIN ds |-> Digit(ds[i])]

YearTexts == {Digits(<<2, 0, 2, 5>>), Digits(<<2, 0, 2, 4>>), Digits(<<1, 9, 0, 0>>),
              Digits(<<0, 0, 0, 0>>), Digits(<<2, 5>>)}
MonthTexts == {Digits(<<0, 2>>), Digits(<<0, 4>>), Digits(<<1, 0>>), Digits(<<1, 3>>),
               Digits(<<0, 0>>), Digits(<<2>>)}
DayTexts == {Digits(<<2, 8>>), Digits(<<2, 9>>), Digits(<<3, 0>>), Digits(<<3, 1>>),
             Digits(<<0, 0>>), Digits(<<5>>), <<Digit(3), 97>>}
Separators == {Hyphen, <<47>>}

\* year first, day first, with a line end after the text, and the empty text
DateTexts ==
    LET yearFirst == {y \o s \o m \o s \o d :
                        y \in YearTexts, m \in MonthTexts, d \in DayTexts, s \in Separators}
        dayFirst == {d \o s \o m \o s \o y :
                        y \in YearTexts, m \in MonthTexts, d \in DayTexts, s \in Separators}
    IN  yearFirst \cup dayFirst \cup {t \o <<10>> : t \in yearFirst} \cup {Empty}

InitDate ==
    /\ tables = [t \in TableNames |-> {}]
    /\ seq = NoSeq
    /\ clock = 0
    /\ last \in {[op |-> "date", arg |-> t] : t \in DateTexts}

NextDate == call_validate_date

SpecDate == InitDate /\ [][NextDate]_vars

\* the days of the twelve months of a common year
MonthLengths == <<31, 28, 31, 30, 31, 30, 31, 31, 30, 31, 30, 31>>

\* the text has the layout YYYY-MM-DD and names a day of the calendar, whose
\* years count from 1
RealDate(s) ==
    /\ Len(s) = 10
    /\ s[5] = 45 /\ s[8] = 45
    /\ \A i \in (1 .. 10) \ {5, 8} : s[i] \in 48 .. 57
    /\ LET n(i) == s[i] - 48
           y == 1000 * n(1) + 100 * n(2) + 10 * n(3) + n(4)
           m == 10 * n(6) + n(7)
           d == 10 * n(9) + n(10)
           leap == IF y % 100 = 0 THEN y % 400 = 0 ELSE y % 4 = 0
       IN  /\ y >= 1 /\ m >= 1 /\ m <= 12 /\ d >= 1
           /\ d <= (IF m = 2 /\ leap THEN 29 ELSE MonthLengths[m])

\* C26: validate_date returns true exactly for texts of the form YYYY-MM-DD,
\* four, two and two digits, that name a real calendar date; it returns false
\* for the empty text, for other layouts such as DD-MM-YYYY and for impossible
\* dates such as month 13.
C26_ValidateDate ==
    last.op = "validate_date" => (last.ret <=> RealDate(last.arg))

\* the leap day of 2024 was accepted
C26_Witness ==
    /\ last.op = "validate_date" /\ last.ret
    /\ last.arg = DateStr(2024, 2, 29)

---------------------------------------------------------------------------
(* BudgetTrackerCLI: the dialogs that take typed amounts *)

\* utils.validate_description
validate_description(description) ==
    description = << >> \/ ~(Len(Strip(description)) > 500)

\* what a parsed amount does in the constructors' comparisons with 0: every
\* comparison with not-a-number is false, which under < 0 and <= 0 is what 1
\* gives
Comparand(v) == IF v.kind = "nan" THEN 1 ELSE v.num

\* sqlite3 binds a not-a-number float as NULL, which the NOT NULL amount
\* columns refuse
BoundAsNull(v) == v.kind = "nan"

\* the parsed amounts the dialogs are followed on: whole numbers, which is how
\* the tables here hold amounts, and not-a-number
Followed(v) == v.kind = "nan" \/ (v.kind = "num" /\ v.den = 1)

\* BudgetTrackerCLI.add_income_entry from the typed texts on: the prompts for
\* source and amount ask again until validate_category and parse_amount pass
typed_add_income_entry(source_input, amount_text, date_input, description_input) ==
    LET parsed == parse_amount(amount_text)
        x == Expanded(DB, source_input, "income")
        income == [date |-> date_input, source |-> x.name,
                   amount |-> Comparand(parsed.value),
                   description |-> description_input, alias |-> x.alias]
        typed == [name |-> source_input, amount |-> amount_text]
    IN  /\ validate_category(source_input)
        /\ parsed.err = "" /\ Followed(parsed.value)
        /\ validate_description(description_input)
        /\ Room
        /\ IF ~IncomeEntry_post_init(income)
              THEN /\ last' = [op |-> "typed_add_income_entry", err |-> "ValueError",
                               typed |-> typed]
                   /\ UNCHANGED <<tables, seq>>
           ELSE IF BoundAsNull(parsed.value)
              THEN /\ last' = [op |-> "typed_add_income_entry", err |-> "Database error",
                               typed |-> typed]
                   /\ UNCHANGED <<tables, seq>>
              ELSE /\ last' = [op |-> "typed_add_income_entry", err |-> "",
                               typed |-> typed]
                   /\ Commit(Insert(DB, "income",
                        [date |-> income.date, source |-> income.source,
                         amount |-> income.amount, description |-> income.description,
                         alias |-> income.alias, created_at |-> clock]))
        /\ UNCHANGED clock

\* BudgetTrackerCLI.add_expense_entry from the typed texts on
typed_add_expense_entry(category_input, amount_text, date_input, description_input) ==
    LET parsed == parse_amount(amount_text)
        x == Expanded(DB, category_input, "expenses")
        expense == [date |-> date_input, category |-> x.name,
                    amount |-> Comparand(parsed.value),
                    description |-> description_input, alias |-> x.alias]
        typed == [name |-> category_input, amount |-> amount_text]
    IN  /\ validate_category(category_input)
        /\ parsed.err = "" /\ Followed(parsed.value)
        /\ validate_description(description_input)
        /\ Room
        /\ IF ~ExpenseEntry_post_init(expense)
              THEN /\ last' = [op |-> "typed_add_expense_entry", err |-> "ValueError",
                               typed |-> typed]
                   /\ UNCHANGED <<tables, seq>>
           ELSE IF BoundAsNull(parsed.value)
              THEN /\ last' = [op |-> "typed_add_expense_entry", err |-> "Database error",
                               typed |-> typed]
                   /\ UNCHANGED <<tables, seq>>
              ELSE /\ last' = [op |-> "typed_add_expense_entry", err |-> "",
                               typed |-> typed]
                   /\ Commit(Insert(DB, "expenses",
                        [date |-> expense.date, category |-> expense.category,
                         amount |-> expense.amount, description |-> expense.description,
                         alias |-> expense.alias, created_at |-> clock]))
        /\ UNCHANGED clock

\* BudgetTrackerCLI.set_budget_limit: each failed check ends the dialog
typed_set_budget_limit(category, limit_input, description) ==
    LET parsed == parse_amount(limit_input)
        budget_limit == [category |-> category, monthly_limit |-> Comparand(parsed.value),
                         description |-> description]
        typed == [name |-> category, amount |-> limit_input]
        Refused(e) == /\ last' = [op |-> "typed_set_budget_limit", err |-> e,
                                  typed |-> typed]
                      /\ UNCHANGED <<tables, seq>>
    IN  /\ NextRowid(DB, "budget_limits") <= MaxLimitId
        /\ parsed.err # "" \/ Followed(parsed.value)
        /\ IF ~validate_category(category) THEN Refused("Invalid category name.")
           ELSE IF parsed.err # "" THEN Refused("Invalid amount")
           ELSE IF ~validate_description(description) THEN Refused("Description too long.")
           ELSE IF ~BudgetLimit_post_init(budget_limit) THEN Refused("ValueError")
           ELSE IF BoundAsNull(parsed.value) THEN Refused("Database error")
           ELSE /\ last' = [op |-> "typed_set_budget_limit", err |-> "", typed |-> typed]
                /\ Commit(InsertOrReplace(DB,
                     [category |-> budget_limit.category,
                      monthly_limit |-> budget_limit.monthly_limit,
                      description |-> budget_limit.description, created_at |-> clock]))
        /\ UNCHANGED clock

\* BudgetTrackerCLI.create_savings_goal on the day `today`
create_savings_goal(name, target_input, target_date, category, description, today) ==
    LET parsed == parse_amount(target_input)
        goal == [name |-> name, target_amount |-> Comparand(parsed.value),
                 current_amount |-> 0, target_date |-> target_date,
                 category |-> category, description |-> description,
                 is_completed |-> FALSE, created_date |-> today]
        typed == [name |-> name, amount |-> target_input]
        Refused(e) == /\ last' = [op |-> "create_savings_goal", err |-> e, typed |-> typed]
                      /\ UNCHANGED <<tables, seq>>
    IN  /\ Room
        /\ parsed.err # "" \/ Followed(parsed.value)
        /\ IF Strip(name) = << >> THEN Refused("Goal name cannot be empty.")
           ELSE IF parsed.err # "" THEN Refused("Invalid amount")
           ELSE IF ~validate_date(target_date) THEN Refused("Invalid date format.")
           ELSE IF ~validate_category(category) THEN Refused("Invalid category name.")
           ELSE IF ~validate_description(description) THEN Refused("Description too long.")
           ELSE IF ~SavingsGoal_post_init(goal) THEN Refused("ValueError")
           ELSE IF BoundAsNull(parsed.value) THEN Refused("Database error")
           ELSE /\ last' = [op |-> "create_savings_goal", err |-> "", typed |-> typed]
                /\ Commit(Insert(DB, GoalT,
                     [name |-> goal.name, target_amount |-> goal.target_amount,
                      current_amount |-> goal.current_amount,
                      target_date |-> goal.target_date, category |-> goal.category,
                      description |-> goal.description,
                      is_completed |-> goal.is_completed,
                      created_date |-> goal.created_date, created_at |-> clock]))
        /\ UNCHANGED clock

---------------------------------------------------------------------------
(* Typed input: the inputs, the specification and the properties *)

\* the texts 1, -1, 0, $1, nan, 1.1.1 and the empty text
TypedAmountTexts ==
    {<<49>>, <<45, 49>>, <<48>>, <<36, 49>>, Txt_nan, <<49, 46, 49, 46, 49>>, Empty}

TypedNames == {Txt_job, Blank}
TypedDates == {DateStr(2026, 6, 30), DateStr(2025, 2, 30)}

NextInput ==
    \/ \E n \in TypedNames, a \in TypedAmountTexts :
          typed_add_income_entry(n, a, EntryDate, Empty)
    \/ \E n \in TypedNames, a \in TypedAmountTexts :
          typed_add_expense_entry(n, a, EntryDate, Empty)
    \/ \E n \in TypedNames, a \in TypedAmountTexts :
          typed_set_budget_limit(n, a, Empty)
    \/ \E n \in TypedNames, a \in TypedAmountTexts, d \in TypedDates :
          create_savings_goal(n, a, d, Txt_car, Empty, DateStr(2025, 1, 15))

SpecInput == Init /\ [][NextInput]_vars

\* the typed amount writes a number that is at least this much
WritesAtLeast(text, least) ==
    /\ Numeral(Stripped(text))
    /\ NumeralValue(Stripped(text)).num >= least * NumeralValue(Stripped(text)).den

\* C23: after any sequence of add-entry, set-budget-limit and create-goal
\* dialogs every stored income and expense row has amount >= 0 and a source or
\* category that is not blank, every stored budget limit has
\* monthly_limit >= 0, and every stored goal has target_amount > 0 and
\* current_amount >= 0; a dialog whose typed amount or name breaks one of
\* these is refused and leaves the store unchanged.
C23_InvalidInputNotStored ==
    /\ [](/\ \A r \in tables["income"] : r.amount >= 0 /\ Strip(r.source) # << >>
          /\ \A r \in tables["expenses"] : r.amount >= 0 /\ Strip(r.category) # << >>
          /\ \A r \in tables["budget_limits"] : r.monthly_limit >= 0
          /\ \A r \in tables[GoalT] : r.target_amount > 0 /\ r.current_amount >= 0)
    /\ [][/\ last'.op \in {"typed_add_income_entry", "typed_add_expense_entry",
                           "typed_set_budget_limit"}
             => ((~WritesAtLeast(last'.typed.amount, 0) \/ Strip(last'.typed.name) = << >>)
                    => (last'.err # "" /\ tables' = tables /\ seq' = seq))
          /\ last'.op = "create_savings_goal"
             => ((~WritesAtLeast(last'.typed.amount, 1) \/ Strip(last'.typed.name) = << >>)
                    => (last'.err # "" /\ tables' = tables /\ seq' = seq))]_vars

\* a typed not-a-number amount was turned away by the store while an entry
\* is stored
C23_Witness ==
    /\ last.op = "typed_add_income_entry" /\ last.err = "Database error"
    /\ last.typed.amount = Txt_nan
    /\ tables["income"] # {}

---------------------------------------------------------------------------
(* Goals from the creation dialog: the inputs, the specification, the property *)

\* the texts 0, 1, 2, 3
CreateTargets == {<<Digit(0)>>, <<Digit(1)>>, <<Digit(2)>>, <<Digit(3)>>}

NextCreate ==
    \/ \E t \in CreateTargets :
          create_savings_goal(Txt_car, t, DateStr(2026, 6, 30), Txt_car, Empty,
                              DateStr(2025, 1, 15))
    \/ \E id \in GoalIds, a \in ProgressAmounts : add_progress(id, a)

SpecCreate == Init /\ [][NextCreate]_vars

---------------------------------------------------------------------------
(* Identifiers: the inputs, the specification and the properties *)

IdIncome == [date |-> EntryDate, source |-> Txt_job, amount |-> 5,
             description |-> Empty, alias |-> None]
IdExpense == [date |-> EntryDate, category |-> Txt_food, amount |-> 5,
              description |-> Empty, alias |-> None]
IdGoal == [name |-> Txt_car, target_amount |-> 2, current_amount |-> 0,
           target_date |-> DateStr(2026, 6, 30), category |-> Txt_car,
           description |-> Empty, is_completed |-> FALSE,
           created_date |-> DateStr(2025, 1, 15)]

NextIds ==
    \/ add_income(IdIncome)
    \/ add_expense(IdExpense)
    \/ add_goal(IdGoal)
    \/ \E id \in EntryIds : delete_income(id)
    \/ \E id \in EntryIds : delete_expense(id)
    \/ \E id \in GoalIds : delete_goal(id)

SpecIds == Init /\ [][NextIds]_vars

\* the table an add or a delete works on
TableOf(op) ==
    CASE op \in {"add_income", "delete_income"} -> "income"
      [] op \in {"add_expense", "delete_expense"} -> "expenses"
      [] OTHER -> GoalT

AddOps == {"add_income", "add_expense", "add_goal"}
DeleteOps == {"delete_income", "delete_expense", "delete_goal"}

\* the largest id the table has handed out, as sqlite_sequence keeps it
Counter(sq, t) == IF t \in DOMAIN sq THEN sq[t] ELSE 0

\* C28: add_income, add_expense and add_goal return an id that no row of the
\* table has; without reindex_table the ids a table returns are strictly
\* increasing over any sequence of adds and deletes: each is larger than every
\* stored id and than the table's counter, which no delete lowers and which
\* covers every id returned before, so the id of a deleted row is never
\* assigned again, even when that row had the largest id.
C28_IdsNeverReused ==
    /\ [](\A t \in DOMAIN tables : \A r \in tables[t] : r.id <= Counter(seq, t))
    /\ [][/\ (last'.op \in AddOps /\ last'.err = "")
             => LET t == TableOf(last'.op)
                IN  /\ last'.ret \notin Ids(DB, t)
                    /\ \A r \in tables[t] : last'.ret > r.id
                    /\ last'.ret > Counter(seq, t)
                    /\ Counter(seq', t) = last'.ret
                    /\ Ids(DBNext, t) = Ids(DB, t) \cup {last'.ret}
          /\ last'.op \in DeleteOps
             => \A t \in DOMAIN tables : Counter(seq', t) = Counter(seq, t)
          /\ (last.op = last'.op /\ last.op \in AddOps /\ last.err = "" /\ last'.err = "")
             => last'.ret > last.ret
          /\ (last.op \in {"delete_income", "delete_expense"} /\ last.err = ""
                /\ last'.op \in AddOps /\ TableOf(last'.op) = TableOf(last.op)
                /\ last'.err = "")
             => last'.ret > last.ret.id]_vars

\* an add to the emptied income table returned 2: the row with id 1, the
\* largest when it was deleted, did not give its id back
C28_Witness ==
    /\ last.op = "add_income" /\ last.err = "" /\ last.ret = 2
    /\ Ids(DB, "income") = {2}

---------------------------------------------------------------------------
(* Identifiers after a re-index *)

\* C29: after a successful reindex_table(T) that leaves n rows, the next add
\* to T returns id n + 1: the counter of T no longer remembers larger ids
\* handed out before the re-index, so such ids can be assigned again; the ids
\* within a table stay unique.
C29_ReindexResetsCounter ==
    /\ [](UniqueIds(tables))
    /\ []((last.op = "reindex_table" /\ last.err = "")
            => /\ NextRowid(DB, last.tbl) = Cardinality(tables[last.tbl]) + 1
               /\ Ids(DB, last.tbl) = 1 .. Cardinality(tables[last.tbl]))
    /\ [][(/\ last.op = "reindex_table" /\ last.err = "" /\ last.tbl = "income"
           /\ last'.op = "add_income" /\ last'.err = "")
            => /\ last'.ret = Cardinality(tables["income"]) + 1
               /\ Ids(DBNext, "income") = 1 .. last'.ret]_vars

\* a re-index of the income table has left one row, and the id the next add
\* will return belonged to a row before the re-index
C29_Witness ==
    /\ last.op = "reindex_table" /\ last.err = "" /\ last.tbl = "income"
    /\ Cardinality(tables["income"]) = 1
    /\ NextRowid(DB, "income") \in last.was

---------------------------------------------------------------------------
(* Progress on a goal that is not stored *)

\* C30: add_progress(id, amount) with amount > 0 and an id that is not in the
\* savings_goals table fails with the error Goal not found, creates no goal
\* and leaves every stored goal unchanged.
C30_ProgressOnMissingGoal ==
    /\ [](\A id \in GoalIds \ Ids(DB, GoalT), a \in ProgressAmounts :
            a > 0 => /\ add_progress_call(DB, id, a).err = "Goal not found"
                     /\ add_progress_call(DB, id, a).db = DB)
    /\ [][(last'.op = "add_progress" /\ last'.err = "Goal not found")
            => tables' = tables /\ seq' = seq]_vars

\* progress on an id that no goal has was refused while a goal is stored
C30_Witness ==
    /\ last.op = "add_progress" /\ last.err = "Goal not found"
    /\ tables[GoalT] # {}

====
